---- MODULE Spec2Model ----
(***************************************************************************)
(* PIN sealing service of remote-juggler (src/pinentry, src/c_src).        *)
(*                                                                         *)
(* One public API (src/pinentry/hsm.h) with three implementations:         *)
(*   hsm_stub.c    files holding the PIN XORed with 0x5A                   *)
(*   hsm_linux.c   TPM 2.0 sealed objects kept in files                    *)
(*   hsm_darwin.c  Secure Enclave keys and keychain items                  *)
(* The variable backend says which of the three was built.  Calls are      *)
(* sequential here: one action is one whole call of the API.  The outcome  *)
(* of every call the code makes to the outside (file system, TPM,          *)
(* keychain) is an input of the action, named fault.                       *)
(***************************************************************************)
EXTENDS Integers, Sequences, FiniteSets, TLC

(* ---- hsm_error_t, src/pinentry/hsm.h ---- *)
HSM_SUCCESS == 0
HSM_ERR_NOT_AVAILABLE == 1
HSM_ERR_NOT_INITIALIZED == 2
HSM_ERR_INVALID_IDENTITY == 3
HSM_ERR_SEAL_FAILED == 4
HSM_ERR_UNSEAL_FAILED == 5
HSM_ERR_NOT_FOUND == 6
HSM_ERR_AUTH_FAILED == 7
HSM_ERR_PCR_MISMATCH == 8
HSM_ERR_MEMORY == 9
HSM_ERR_IO == 10
HSM_ERR_PERMISSION == 11
HSM_ERR_TIMEOUT == 12
HSM_ERR_CANCELLED == 13
HSM_ERR_INTERNAL == 99

(* HSMType of c_src/hsm.h; hsm_method_t of pinentry/hsm.h has the same     *)
(* four values                                                             *)
HSM_TYPE_NONE == 0
HSM_TYPE_TPM == 1
HSM_TYPE_SECURE_ENCLAVE == 2
HSM_TYPE_KEYCHAIN == 3
HSM_METHOD_NONE == 0
HSM_METHOD_TPM == 1
HSM_METHOD_SECURE_ENCLAVE == 2
HSM_METHOD_KEYCHAIN == 3

(* ---- limits of the implementations ---- *)
STUB_MAX_PIN_LEN == 256
STUB_MAX_IDENTITY_LEN == 64
LINUX_MAX_PIN_LEN == 128
DARWIN_MAX_PIN_LEN == 256
xor_key == 90
LINUX_LINE_LEN == 128

(* ---- bytes and byte strings ---- *)
Rep(b, n) == [i \in 1..n |-> b]

RECURSIVE XorBits(_, _, _)
XorBits(a, b, k) ==
    IF k = 0 THEN 0
    ELSE (((a % 2) + (b % 2)) % 2) + 2 * XorBits(a \div 2, b \div 2, k - 1)

(* the C operator ^ on two uint8_t values *)
Xor8(a, b) == XorBits(a, b, 8)

(* b ^ xor_key for every byte b *)
XorTable == [b \in 0..255 |-> Xor8(b, xor_key)]

XorKey(s) == [i \in DOMAIN s |-> XorTable[s[i]]]

ZeroFill(s) == [i \in DOMAIN s |-> 0]

Min(S) == CHOOSE x \in S : \A y \in S : x <= y
Max(S) == CHOOSE x \in S : \A y \in S : x >= y

Take(s, n) == IF Len(s) <= n THEN s ELSE SubSeq(s, 1, n)

(* a NULL pointer argument, and a file or item that is not there: values   *)
(* that no byte string equals                                              *)
NullPtr == <<-1>>
Absent == <<-2>>

(* ---- the inputs the calls are tried with ---- *)
IdA == <<97>>
IdB == <<98>>
IdDot == <<97, 46, 98>>
IdSlash == <<98, 97, 100, 47, 110, 97, 109, 101>>
IdBackslash == <<97, 92, 98>>
IdCtrl == <<97, 10>>
IdHigh == <<97, 200>>
IdEmpty == <<>>
Id64 == Rep(120, 64)
Id65 == Rep(121, 65)

PinEmpty == <<>>
PinOne == <<49>>
PinBin == <<0, 1, 2, 255, 254, 0, 66>>
Pin128 == Rep(65, 128)
Pin129 == Rep(68, 129)
Pin256 == Rep(66, 256)
Pin257 == Rep(67, 257)

(* what the consumer callback returns *)
CbResults == {0, 1}

(* backend, seAvail: the build and its hardware.  idSet, pinSet, maskSet:  *)
(* the identities, PINs and PCR masks the calls of one behaviour are tried *)
(* with.  dirExists, files:                                                *)
(* the storage directory and its <identity>.pin files.  last: the last     *)
(* call and what it returned.  gPin: what the results seen so far say      *)
(* about each identity.  failures: how many calls have met a failing       *)
(* outside call so far.                                                    *)
(* g_initialized, g_esys_ctx, g_pcr_mask: the statics of hsm_linux.c; pcr: *)
(* the platform's PCR values; blobs: the <identity>.tpm2 files.            *)
(* g_require_biometric: the static of hsm_darwin.c; items: the keychain    *)
(* items com.remotejuggler.pin.<identity>; seKeys: the Secure Enclave keys *)
(* com.remotejuggler.se-key.<identity>; keyMatch[I]: the item of I was     *)
(* encrypted to the key of I that exists now.                              *)
(* th[t]: the call thread t is in and the step it has reached; started[I]: *)
(* the PINs that the seals of I begun by the threads were given.           *)
(* cf_guard: a cf_guard_t of hsm_darwin.c; cf_refs: each CoreFoundation    *)
(* object, not yet made, held, released once or released again; cf_last:   *)
(* the objects the most recent cf_guard_release released, in order.        *)
(* hsm_guard: an hsm_guard_t of hsm_linux.c; tpm_handles, hsm_last: the    *)
(* same for the handles of the TPM and hsm_guard_release.                  *)
(* keychain: the generic password items remote-juggler.hsm.pin.<identity>  *)
(* of the login keychain, which c_src/hsm.c keeps.                         *)
(* traced: whether the observer follows a call of hsm_linux.c through its  *)
(* calls of the TSS, or looks at what the call returns only.               *)
(* sf: one sealed file of hsm_linux.c byte by byte: the two objects        *)
(* Esys_Create returned, the bytes of the file, and what the last read of  *)
(* it by hsm_unseal_pin did.                                               *)
VARIABLES backend, seAvail, idSet, pinSet, maskSet, dirExists, files, last,
          gPin, failures,
          g_initialized, g_esys_ctx, g_pcr_mask, pcr, blobs,
          g_require_biometric, items, seKeys, keyMatch,
          th, started,
          hw, s_detection_done, s_detected_type, det, returned,
          cf_guard, cf_refs, cf_last, hsm_guard, tpm_handles, hsm_last,
          keychain, traced, sf

vars == <<backend, seAvail, idSet, pinSet, maskSet, dirExists, files, last,
          gPin, failures,
          g_initialized, g_esys_ctx, g_pcr_mask, pcr, blobs,
          g_require_biometric, items, seKeys, keyMatch,
          th, started,
          hw, s_detection_done, s_detected_type, det, returned,
          cf_guard, cf_refs, cf_last, hsm_guard, tpm_handles, hsm_last,
          keychain, traced, sf>>

stubVars == <<dirExists, files>>
linuxVars == <<g_initialized, g_esys_ctx, g_pcr_mask, pcr, blobs>>
darwinVars == <<g_require_biometric, items, seKeys, keyMatch>>
(* the hardware as a probe finds it, the statics of hsm_detect_available,  *)
(* the detection calls of each thread and the kinds returned so far       *)
detVars == <<hw, s_detection_done, s_detected_type, det, returned>>

(* what no call made by a single caller touches *)
guardVars ==
    <<cf_guard, cf_refs, cf_last, hsm_guard, tpm_handles, hsm_last>>
build ==
    <<backend, seAvail, idSet, pinSet, maskSet,
      th, started, detVars, guardVars,
      keychain, traced, sf>>

(* the identities that can name a file, an item or a key *)
Keys == idSet \ {NullPtr}

(* hsm_available of the three pinentry implementations *)
hsm_available ==
    CASE backend = "stub" -> HSM_METHOD_KEYCHAIN
      [] backend = "linux" -> IF hw THEN HSM_METHOD_TPM ELSE HSM_METHOD_NONE
      [] backend = "darwin" -> IF seAvail THEN HSM_METHOD_SECURE_ENCLAVE
                               ELSE HSM_METHOD_KEYCHAIN

(* no call of the TSS was seen to fail *)
NoTss == [at |-> "none", rc |-> "success"]

(* a const char*: NULL, or a pointer to the text *)
NullMsg == [null |-> TRUE, text |-> ""]
Msg(text) == [null |-> FALSE, text |-> text]

(* ---- observation of the last call ---- *)
(* op, id, pin: the call and its arguments; ret: what it returned; cbRet,  *)
(* cbCalls, got: what the consumer returned, how often it ran and the      *)
(* bytes it was given; envOk: every outside call went as it does when      *)
(* nothing fails; produced: the store held a readable PIN for id and       *)
(* nothing failed; freed: the buffers that held plaintext, as they were    *)
(* when released; nullCb: the callback argument was NULL; had: an artifact *)
(* of id was there before a clear; prior: a seal of id had returned        *)
(* success, with no successful clear since, before this seal; decrypt: the *)
(* call asked the TPM to unseal, the Secure Enclave key to decrypt, or     *)
(* decoded the bytes of a file; prompt: that operation may put up an       *)
(* authentication dialogue; dismissed: the user cancelled that dialogue;   *)
(* active: what hsm_available answers at the time of the call; names,      *)
(* count: the array hsm_list_identities returned and what it stored in     *)
(* *count; msg: the pointer hsm_error_message returned; events: the TPM    *)
(* handles the call obtained and flushed, the consumer's run, and the      *)
(* zeroing and freeing of the unsealed buffer, in the order they happened; *)
(* tss: the TPM call of hsm_seal_pin or hsm_unseal_pin that failed, and    *)
(* the class of its return code; kc: what the keychain call of a call of   *)
(* c_src/hsm.c returned.                                                   *)
Obs(op, id, pin, ret, cbRet, cbCalls, got, envOk, produced, freed) ==
    [op |-> op, id |-> id, pin |-> pin, ret |-> ret,
     cbRet |-> IF cbCalls > 0 THEN cbRet ELSE 0, cbCalls |-> cbCalls,
     got |-> got, envOk |-> envOk, produced |-> produced, freed |-> freed,
     nullCb |-> FALSE, had |-> FALSE, prior |-> FALSE, decrypt |-> FALSE,
     prompt |-> FALSE, dismissed |-> FALSE, active |-> hsm_available,
     names |-> <<>>, count |-> 0, msg |-> NullMsg, events |-> <<>>,
     tss |-> NoTss, kc |-> 0]

NoObs == Obs("none", NullPtr, NullPtr, 0, 0, 0, Absent, TRUE, FALSE, {})

(* ---- history of the results the caller has seen ---- *)
(* gPin[I]: the PIN of the most recent seal of I that returned success, if *)
(* no clear of I or clear_all returned success after it; Cleared when a    *)
(* clear of I that found an artifact returned success and no seal of I has *)
(* returned success since; else Absent.                                    *)
Cleared == <<-4>>

Sealed(i) == gPin[i] \notin {Absent, Cleared}

AfterSeal(id, pin, ret) ==
    gPin' = IF ret = HSM_SUCCESS /\ id \in Keys
            THEN [gPin EXCEPT ![id] = pin] ELSE gPin

AfterClear(id, ret, had) ==
    gPin' = IF ret = HSM_SUCCESS /\ id \in Keys
            THEN [gPin EXCEPT ![id] = IF had \/ gPin[id] = Cleared
                                      THEN Cleared ELSE Absent]
            ELSE gPin

AfterClearAll(ret) ==
    gPin' = IF ret = HSM_SUCCESS
            THEN [i \in Keys |-> IF gPin[i] = Cleared THEN Cleared ELSE Absent]
            ELSE gPin

(* ---- failures of the outside calls ---- *)
(* at most MaxFailures calls of a behaviour meet a failing outside call *)
MaxFailures == 1

Allowed(faults, none) == IF failures < MaxFailures THEN faults ELSE {none}

Failure(envOk) == failures' = IF envOk THEN failures ELSE failures + 1

(* ======================= hsm_stub.c ======================= *)

(* the name holds a '/', so the path names a directory that is not there *)
HasSlash(identity) == 47 \in {identity[k] : k \in DOMAIN identity}

StubSealFaults == {"none", "mkdir", "fopen", "fwrite"}

(* hsm_seal_pin: return code, the directory, the files.  The result of     *)
(* fwrite is not looked at: a write that fails leaves the file that fopen  *)
(* truncated and the call still returns success.                           *)
stub_seal(identity, pin, fault) ==
    IF identity = NullPtr \/ pin = NullPtr \/ Len(pin) = 0
    THEN [ret |-> HSM_ERR_INVALID_IDENTITY, dir |-> dirExists, files |-> files]
    ELSE IF Len(pin) > STUB_MAX_PIN_LEN
    THEN [ret |-> HSM_ERR_INVALID_IDENTITY, dir |-> dirExists, files |-> files]
    ELSE IF Len(identity) > STUB_MAX_IDENTITY_LEN
    THEN [ret |-> HSM_ERR_INVALID_IDENTITY, dir |-> dirExists, files |-> files]
    ELSE IF fault = "mkdir"
    THEN [ret |-> HSM_ERR_IO, dir |-> dirExists, files |-> files]
    ELSE IF fault = "fopen" \/ HasSlash(identity)
    THEN [ret |-> HSM_ERR_IO, dir |-> TRUE, files |-> files]
    ELSE IF fault = "fwrite"
    THEN [ret |-> HSM_SUCCESS, dir |-> TRUE,
          files |-> [files EXCEPT ![identity] = <<>>]]
    ELSE [ret |-> HSM_SUCCESS, dir |-> TRUE,
          files |-> [files EXCEPT ![identity] = XorKey(pin)]]

StubSealPin ==
    /\ backend = "stub"
    /\ \E identity \in idSet, pin \in pinSet,
          fault \in Allowed(StubSealFaults, "none") :
         LET r == stub_seal(identity, pin, fault) IN
         /\ files' = r.files
         /\ dirExists' = r.dir
         /\ last' = [Obs("seal", identity, pin, r.ret, 0, 0, Absent,
                         r = stub_seal(identity, pin, "none"), FALSE, {})
                     EXCEPT !.prior = identity \in Keys
                                      /\ Sealed(identity)]
         /\ AfterSeal(identity, pin, r.ret)
         /\ Failure(last'.envOk)
    /\ UNCHANGED <<build, linuxVars, darwinVars>>

(* hsm_unseal_pin without the test of pin_len == 0 *)
stub_unseal_noEmptyCheck(identity, hasCallback, cbRet) ==
    IF identity = NullPtr \/ ~hasCallback
    THEN [ret |-> HSM_ERR_INVALID_IDENTITY, calls |-> 0, got |-> Absent,
          freed |-> {}]
    ELSE IF files[identity] = Absent
    THEN [ret |-> HSM_ERR_NOT_FOUND, calls |-> 0, got |-> Absent, freed |-> {}]
    ELSE LET pin == XorKey(Take(files[identity], STUB_MAX_PIN_LEN)) IN
         [ret |-> IF cbRet # 0 THEN HSM_ERR_INTERNAL ELSE HSM_SUCCESS,
          calls |-> 1, got |-> pin,
          freed |-> {[buf |-> "pin", bytes |-> ZeroFill(pin)]}]

(* hsm_unseal_pin without the test of cb_result *)
stub_unseal_cbIgnored(identity, hasCallback, cbRet) ==
    IF identity = NullPtr \/ ~hasCallback
    THEN [ret |-> HSM_ERR_INVALID_IDENTITY, calls |-> 0, got |-> Absent,
          freed |-> {}]
    ELSE IF files[identity] = Absent
    THEN [ret |-> HSM_ERR_NOT_FOUND, calls |-> 0, got |-> Absent, freed |-> {}]
    ELSE LET pin == XorKey(Take(files[identity], STUB_MAX_PIN_LEN)) IN
         IF Len(pin) = 0
         THEN [ret |-> HSM_ERR_NOT_FOUND, calls |-> 0, got |-> Absent,
               freed |-> {}]
         ELSE [ret |-> HSM_SUCCESS, calls |-> 1, got |-> pin,
               freed |-> {[buf |-> "pin", bytes |-> ZeroFill(pin)]}]

(* hsm_unseal_pin: fopen "rb" fails when the file is not there; at most    *)
(* MAX_PIN_LEN bytes are read and XORed back; an empty file is not_found;  *)
(* the callback gets the buffer, which is then zeroed.                     *)
stub_unseal(identity, hasCallback, cbRet) ==
    IF identity = NullPtr \/ ~hasCallback
    THEN [ret |-> HSM_ERR_INVALID_IDENTITY, calls |-> 0, got |-> Absent,
          freed |-> {}]
    ELSE IF files[identity] = Absent
    THEN [ret |-> HSM_ERR_NOT_FOUND, calls |-> 0, got |-> Absent, freed |-> {}]
    ELSE LET pin == XorKey(Take(files[identity], STUB_MAX_PIN_LEN)) IN
         IF Len(pin) = 0
         THEN [ret |-> HSM_ERR_NOT_FOUND, calls |-> 0, got |-> Absent,
               freed |-> {}]
         ELSE [ret |-> IF cbRet # 0 THEN HSM_ERR_INTERNAL ELSE HSM_SUCCESS,
               calls |-> 1, got |-> pin,
               freed |-> {[buf |-> "pin", bytes |-> ZeroFill(pin)]}]

(* hsm_unseal_pin decodes the bytes it read *)
stub_decrypts(identity, hasCallback) ==
    /\ identity # NullPtr
    /\ hasCallback
    /\ files[identity] \notin {Absent, <<>>}

StubUnsealPin ==
    /\ backend = "stub"
    /\ \E identity \in idSet, hasCallback \in BOOLEAN, cbRet \in CbResults :
         /\ hasCallback \/ cbRet = 0
         /\ LET r == stub_unseal(identity, hasCallback, cbRet) IN
             last' = [Obs("unseal", identity, NullPtr, r.ret, cbRet, r.calls,
                          r.got, TRUE,
                          /\ identity # NullPtr
                          /\ hasCallback
                          /\ files[identity] # Absent
                          /\ files[identity] # <<>>,
                          r.freed)
                      EXCEPT !.nullCb = ~hasCallback,
                             !.decrypt = stub_decrypts(identity, hasCallback)]
    /\ UNCHANGED <<build, stubVars, linuxVars, darwinVars, gPin, failures>>

stub_pin_exists(identity) ==
    IF identity = NullPtr THEN -1
    ELSE IF files[identity] # Absent THEN 1 ELSE 0

StubPinExists ==
    /\ backend = "stub"
    /\ \E identity \in idSet :
         last' = Obs("exists", identity, NullPtr, stub_pin_exists(identity),
                     0, 0, Absent, TRUE, FALSE, {})
    /\ UNCHANGED <<build, stubVars, linuxVars, darwinVars, gPin, failures>>

StubClearFaults == {"none", "remove"}

(* hsm_clear_pin: the file is overwritten with zeros when it opens, then   *)
(* removed; remove fails when the file is not there.                       *)
stub_clear(identity, fault) ==
    IF identity = NullPtr
    THEN [ret |-> HSM_ERR_INVALID_IDENTITY, files |-> files]
    ELSE IF files[identity] = Absent
    THEN [ret |-> HSM_ERR_IO, files |-> files]
    ELSE IF fault = "remove"
    THEN [ret |-> HSM_ERR_IO,
          files |-> [files EXCEPT ![identity] = ZeroFill(files[identity])]]
    ELSE [ret |-> HSM_SUCCESS, files |-> [files EXCEPT ![identity] = Absent]]

StubClearPin ==
    /\ backend = "stub"
    /\ \E identity \in idSet, fault \in Allowed(StubClearFaults, "none") :
         LET r == stub_clear(identity, fault) IN
         /\ files' = r.files
         /\ last' = [Obs("clear", identity, NullPtr, r.ret, 0, 0, Absent,
                         r = stub_clear(identity, "none"), FALSE, {})
                     EXCEPT !.had = identity # NullPtr
                                     /\ files[identity] # Absent]
         /\ AfterClear(identity, r.ret, last'.had)
         /\ Failure(last'.envOk)
    /\ UNCHANGED <<build, dirExists, linuxVars, darwinVars>>

StubClearAllFaults == {"none", "rm"}

(* hsm_clear_all: rm -f <dir>/*.pin through system(), whose result is not  *)
(* looked at; the shell pattern *.pin does not match the file ".pin".      *)
stub_clear_all(fault) ==
    [ret |-> HSM_SUCCESS,
     files |-> IF fault = "rm" THEN files
               ELSE [i \in Keys |->
                        IF i = IdEmpty THEN files[i] ELSE Absent]]

StubClearAll ==
    /\ backend = "stub"
    /\ \E fault \in Allowed(StubClearAllFaults, "none") :
         LET r == stub_clear_all(fault) IN
         /\ files' = r.files
         /\ last' = Obs("clear_all", NullPtr, NullPtr, r.ret, 0, 0, Absent,
                        r = stub_clear_all("none"), FALSE, {})
         /\ AfterClearAll(r.ret)
         /\ Failure(last'.envOk)
    /\ UNCHANGED <<build, dirExists, linuxVars, darwinVars>>

(* hsm_initialize: nothing to do *)
StubInitialize ==
    /\ backend = "stub"
    /\ last' = Obs("initialize", NullPtr, NullPtr, HSM_SUCCESS, 0, 0, Absent,
                   TRUE, FALSE, {})
    /\ UNCHANGED <<build, stubVars, linuxVars, darwinVars, gPin, failures>>

(* hsm_tpm_set_pcr_binding, hsm_se_set_biometric: not available *)
StubSetPcrBinding ==
    /\ backend = "stub"
    /\ last' = Obs("set_pcr_binding", NullPtr, NullPtr, HSM_ERR_NOT_AVAILABLE,
                   0, 0, Absent, TRUE, FALSE, {})
    /\ UNCHANGED <<build, stubVars, linuxVars, darwinVars, gPin, failures>>

StubSetBiometric ==
    /\ backend = "stub"
    /\ last' = Obs("set_biometric", NullPtr, NullPtr, HSM_ERR_NOT_AVAILABLE,
                   0, 0, Absent, TRUE, FALSE, {})
    /\ UNCHANGED <<build, stubVars, linuxVars, darwinVars, gPin, failures>>

(* ======================= hsm_linux.c ======================= *)

(* a TSS2_RC, by the class hsm_map_tss_error sorts its base code into *)
RcClasses ==
    {"policy", "auth", "locality", "memory", "retry", "handle",
     "initialize", "other"}

hsm_map_tss_error(rc) ==
    CASE rc = "success" -> HSM_SUCCESS
      [] rc = "policy" -> HSM_ERR_PCR_MISMATCH
      [] rc = "auth" -> HSM_ERR_AUTH_FAILED
      [] rc = "locality" -> HSM_ERR_PERMISSION
      [] rc = "memory" -> HSM_ERR_MEMORY
      [] rc = "retry" -> HSM_ERR_TIMEOUT
      [] rc = "handle" -> HSM_ERR_NOT_FOUND
      [] rc = "initialize" -> HSM_ERR_NOT_AVAILABLE
      [] OTHER -> HSM_ERR_INTERNAL

map_unseal_error(rc) ==
    LET mapped == hsm_map_tss_error(rc) IN
    IF mapped = HSM_ERR_INTERNAL THEN HSM_ERR_UNSEAL_FAILED ELSE mapped

(* a uint32_t PCR mask is the set of its one bits *)
DEFAULT_PCR_MASK == {7}
Pcrs == {0, 7}

(* build_pcr_selection: the bits 0..23 of the mask, one per PCR; the bits  *)
(* 24..31 select nothing                                                   *)
build_pcr_selection(pcr_mask) == {i \in pcr_mask : i < 24}

(* a policy that binds to the selection and not to the values *)
PolicyDigest_selectionOnly(mask) ==
    {<<p, 0>> : p \in build_pcr_selection(mask) \cap Pcrs}

(* the digest of a PCR policy: the selected PCRs and their values *)
PolicyDigest(mask) ==
    {<<p, pcr[p]>> : p \in build_pcr_selection(mask) \cap Pcrs}

(* the content of a sealed file: st is "absent", "blob" (both blobs        *)
(* written), "partial" (fopen truncated it and not all four items were     *)
(* written) or "zeroed" (overwritten by hsm_clear_pin and not unlinked)    *)
(* mask is not in the file: it is the g_pcr_mask the seal that wrote the    *)
(* file ran under, kept for the properties that speak of it                *)
NoBlob == [st |-> "absent", data |-> <<>>, policy |-> {}, mask |-> {}]
Blob(st, data, policy, mask) ==
    [st |-> st, data |-> data, policy |-> policy, mask |-> mask]

Fault(at, rc) == [at |-> at, rc |-> rc]
NoFault == Fault("none", "success")
(* the return codes a failing TPM call is tried with *)
FaultRcs == {"policy", "auth", "other"}
TpmFaults(steps) == {Fault(at, rc) : at \in steps, rc \in FaultRcs}
IoFaults(steps) == {Fault(at, "success") : at \in steps}

LinuxInitFaults ==
    IoFaults({"tcti", "mkdir"}) \cup TpmFaults({"esys_init"})

(* an hsm_initialize that sets everything up on every call *)
linux_initialize_always(fault) ==
    IF fault.at = "tcti"
    THEN [ret |-> HSM_ERR_NOT_AVAILABLE, init |-> g_initialized,
          ctx |-> g_esys_ctx, dir |-> dirExists]
    ELSE IF fault.at = "esys_init"
    THEN [ret |-> hsm_map_tss_error(fault.rc), init |-> g_initialized,
          ctx |-> g_esys_ctx, dir |-> dirExists]
    ELSE IF fault.at = "mkdir"
    THEN [ret |-> HSM_ERR_IO, init |-> g_initialized, ctx |-> TRUE,
          dir |-> dirExists]
    ELSE [ret |-> HSM_SUCCESS, init |-> TRUE, ctx |-> TRUE, dir |-> TRUE]

(* hsm_initialize with init_esys and ensure_storage_dir *)
linux_initialize(fault) ==
    LET same == [init |-> g_initialized, ctx |-> g_esys_ctx,
                 dir |-> dirExists] IN
    IF g_initialized THEN [ret |-> HSM_SUCCESS] @@ same
    ELSE IF ~g_esys_ctx /\ fault.at = "tcti"
    THEN [ret |-> HSM_ERR_NOT_AVAILABLE] @@ same
    ELSE IF ~g_esys_ctx /\ fault.at = "esys_init"
    THEN [ret |-> hsm_map_tss_error(fault.rc)] @@ same
    ELSE IF fault.at = "mkdir"
    THEN [ret |-> HSM_ERR_IO, init |-> FALSE, ctx |-> TRUE, dir |-> dirExists]
    ELSE [ret |-> HSM_SUCCESS, init |-> TRUE, ctx |-> TRUE, dir |-> TRUE]

LinuxInitialize ==
    /\ backend = "linux"
    /\ \E fault \in Allowed({NoFault} \cup LinuxInitFaults, NoFault) :
         LET r == linux_initialize(fault) IN
         /\ g_initialized' = r.init
         /\ g_esys_ctx' = r.ctx
         /\ dirExists' = r.dir
         /\ last' = Obs("initialize", NullPtr, NullPtr, r.ret, 0, 0, Absent,
                        r = linux_initialize(NoFault), FALSE, {})
         /\ Failure(last'.envOk)
    /\ UNCHANGED <<build, files, g_pcr_mask, pcr, blobs, darwinVars, gPin>>

(* the handles a TPM call hands out, by what they name *)
Handles == {"primary", "session", "loaded_key"}
ESYS_TR_NONE == "none"

(* { .handle = ESYS_TR_NONE, .ctx = NULL } *)
HSM_GUARD_INIT == [handle |-> ESYS_TR_NONE, ctx |-> FALSE]

(* an hsm_guard_release that leaves the handle in the guard *)
hsm_guard_release_keepsHandle(guard) ==
    IF guard.ctx /\ guard.handle # ESYS_TR_NONE
    THEN [guard |-> guard, flushed |-> <<guard.handle>>]
    ELSE [guard |-> guard, flushed |-> <<>>]

(* hsm_guard_release: the guard after the call and the handles given to    *)
(* Esys_FlushContext                                                       *)
hsm_guard_release(guard) ==
    IF guard.ctx /\ guard.handle # ESYS_TR_NONE
    THEN [guard |-> [guard EXCEPT !.handle = ESYS_TR_NONE],
          flushed |-> <<guard.handle>>]
    ELSE [guard |-> guard, flushed |-> <<>>]

(* a call part of the way through: c is its cleanup context, ev the       *)
(* events so far                                                           *)
NoCleanup ==
    [c |-> [primary |-> HSM_GUARD_INIT, session |-> HSM_GUARD_INIT,
            loaded_key |-> HSM_GUARD_INIT, unsealed |-> FALSE],
     ev |-> <<>>]

(* a TPM call hands out the handle h, which goes into the guard with       *)
(* g_esys_ctx                                                              *)
Obtain(s, field, h) ==
    [c |-> [s.c EXCEPT ![field] = [handle |-> h, ctx |-> TRUE]],
     ev |-> Append(s.ev, <<"obtain", h>>)]

(* hsm_guard_release(&cleanup.field) *)
Release(s, field) ==
    LET r == hsm_guard_release(s.c[field]) IN
    [c |-> [s.c EXCEPT ![field] = r.guard],
     ev |-> s.ev \o [k \in DOMAIN r.flushed |-> <<"flush", r.flushed[k]>>]]

(* seal_cleanup: the primary key, then the session *)
seal_cleanup(s) == Release(Release(s, "primary"), "session")

(* an unseal_cleanup that frees the unsealed buffer without zeroing it     *)
unseal_cleanup_noZero(s) ==
    LET z == IF s.c.unsealed
             THEN [s EXCEPT !.ev = @ \o <<<<"free", "unsealed">>>>]
             ELSE s
    IN Release(Release(Release(z, "session"), "loaded_key"), "primary")

(* unseal_cleanup: the unsealed buffer is zeroed and freed, then the       *)
(* session, the loaded object and the primary key are released             *)
unseal_cleanup(s) ==
    LET z == IF s.c.unsealed
             THEN [s EXCEPT !.ev = @ \o <<<<"zero", "unsealed">>,
                                          <<"free", "unsealed">>>>]
             ELSE s
    IN Release(Release(Release(z, "session"), "loaded_key"), "primary")

SealRemap(err) == IF err = HSM_ERR_INTERNAL THEN HSM_ERR_SEAL_FAILED ELSE err

LinuxSealFaults ==
    {NoFault} \cup LinuxInitFaults \cup IoFaults({"fopen", "fwrite"})
    \cup TpmFaults({"create_primary", "start_session", "policy_pcr",
                    "policy_digest", "create"})

(* hsm_seal_pin: return code, the statics, the directory, the files *)
linux_seal(identity, pin, fault) ==
    LET i == linux_initialize(fault)
        st(ret, b) == [ret |-> ret, init |-> i.init, ctx |-> i.ctx,
                       dir |-> i.dir, blobs |-> b]
    IN
    IF identity = NullPtr \/ pin = NullPtr \/ Len(pin) = 0
       \/ Len(pin) > LINUX_MAX_PIN_LEN
    THEN [ret |-> HSM_ERR_INVALID_IDENTITY, init |-> g_initialized,
          ctx |-> g_esys_ctx, dir |-> dirExists, blobs |-> blobs]
    ELSE IF i.ret # HSM_SUCCESS THEN st(i.ret, blobs)
    ELSE IF fault.at = "create_primary"
    THEN st(hsm_map_tss_error(fault.rc), blobs)
    ELSE IF fault.at \in {"start_session", "policy_pcr", "policy_digest",
                          "create"}
    THEN st(SealRemap(hsm_map_tss_error(fault.rc)), blobs)
    ELSE IF fault.at = "fopen" \/ HasSlash(identity)
    THEN st(HSM_ERR_IO, blobs)
    ELSE IF fault.at = "fwrite"
    THEN st(HSM_ERR_IO,
            [blobs EXCEPT ![identity] = Blob("partial", <<>>, {}, {})])
    ELSE st(HSM_SUCCESS,
            [blobs EXCEPT ![identity] =
                Blob("blob", pin, PolicyDigest(g_pcr_mask),
                     g_pcr_mask)])

(* hsm_seal_pin: the TPM call that the call made and that failed *)
linux_seal_tss(identity, pin, fault) ==
    IF /\ identity # NullPtr
       /\ pin # NullPtr
       /\ Len(pin) > 0
       /\ Len(pin) <= LINUX_MAX_PIN_LEN
       /\ linux_initialize(fault).ret = HSM_SUCCESS
       /\ fault.at \in {"create_primary", "start_session", "policy_pcr",
                        "policy_digest", "create"}
    THEN fault ELSE NoFault

(* hsm_seal_pin: the handles it obtains and flushes on the path the fault  *)
(* selects                                                                 *)
linux_seal_events(identity, pin, fault) ==
    LET s1 == Obtain(NoCleanup, "primary", "primary")
        s2 == Obtain(s1, "session", "session")
        s3 == Release(s2, "session")
        s4 == Release(s3, "primary")
    IN
    IF identity = NullPtr \/ pin = NullPtr \/ Len(pin) = 0
       \/ Len(pin) > LINUX_MAX_PIN_LEN
    THEN <<>>
    ELSE IF linux_initialize(fault).ret # HSM_SUCCESS THEN <<>>
    ELSE IF fault.at = "create_primary" THEN <<>>
    ELSE IF fault.at = "start_session" THEN seal_cleanup(s1).ev
    ELSE IF fault.at \in {"policy_pcr", "policy_digest"}
    THEN seal_cleanup(s2).ev
    ELSE IF fault.at = "create" THEN seal_cleanup(s3).ev
    ELSE seal_cleanup(s4).ev

LinuxSealPin ==
    /\ backend = "linux"
    /\ \E identity \in idSet, pin \in pinSet,
          fault \in Allowed(LinuxSealFaults, NoFault) :
         /\ (g_initialized => fault \notin LinuxInitFaults)
         /\ LET r == linux_seal(identity, pin, fault) IN
             /\ blobs' = r.blobs
             /\ dirExists' = r.dir
             /\ g_initialized' = r.init
             /\ g_esys_ctx' = r.ctx
             /\ last' = [Obs("seal", identity, pin, r.ret, 0, 0, Absent,
                             r = linux_seal(identity, pin, NoFault), FALSE, {})
                         EXCEPT !.prior = identity \in Keys
                                          /\ Sealed(identity),
                                !.events =
                                    IF traced
                                    THEN linux_seal_events(identity, pin,
                                                           fault)
                                    ELSE <<>>,
                                !.tss =
                                    IF traced
                                    THEN linux_seal_tss(identity, pin, fault)
                                    ELSE NoTss]
             /\ AfterSeal(identity, pin, r.ret)
             /\ Failure(last'.envOk)
    /\ UNCHANGED <<build, files, g_pcr_mask, pcr, darwinVars>>

LinuxUnsealFaults ==
    {NoFault} \cup LinuxInitFaults
    \cup TpmFaults({"create_primary", "load", "start_session", "policy_pcr",
                    "unseal"})

PcrRemap(err) == IF err = HSM_ERR_INTERNAL THEN HSM_ERR_PCR_MISMATCH ELSE err

(* hsm_unseal_pin with unseal_cleanup: the file is read, the object is     *)
(* loaded under a fresh primary key, a policy session is given the current *)
(* values of the PCRs of g_pcr_mask, and Esys_Unseal releases the data     *)
(* when that policy is the one the object was created with.  The unsealed  *)
(* buffer is zeroed by unseal_cleanup before it is freed.                  *)
linux_unseal(identity, hasCallback, cbRet, fault) ==
    LET i == linux_initialize(fault)
        st(ret, calls, got, freed) ==
            [ret |-> ret, init |-> i.init, ctx |-> i.ctx, dir |-> i.dir,
             calls |-> calls, got |-> got, freed |-> freed]
        f == blobs[identity]
    IN
    IF identity = NullPtr \/ ~hasCallback
    THEN [ret |-> HSM_ERR_INVALID_IDENTITY, init |-> g_initialized,
          ctx |-> g_esys_ctx, dir |-> dirExists, calls |-> 0, got |-> Absent,
          freed |-> {}]
    ELSE IF i.ret # HSM_SUCCESS THEN st(i.ret, 0, Absent, {})
    ELSE IF f.st = "absent" THEN st(HSM_ERR_NOT_FOUND, 0, Absent, {})
    ELSE IF f.st = "partial" THEN st(HSM_ERR_IO, 0, Absent, {})
    ELSE IF fault.at = "create_primary"
    THEN st(hsm_map_tss_error(fault.rc), 0, Absent, {})
    ELSE IF fault.at = "load"
    THEN st(map_unseal_error(fault.rc), 0, Absent, {})
    ELSE IF f.st = "zeroed" THEN st(map_unseal_error("other"), 0, Absent, {})
    ELSE IF fault.at = "start_session"
    THEN st(map_unseal_error(fault.rc), 0, Absent, {})
    ELSE IF fault.at = "policy_pcr"
    THEN st(PcrRemap(hsm_map_tss_error(fault.rc)), 0, Absent, {})
    ELSE IF fault.at = "unseal"
    THEN st(PcrRemap(hsm_map_tss_error(fault.rc)), 0, Absent, {})
    ELSE IF f.policy # PolicyDigest(g_pcr_mask)
    THEN st(PcrRemap(hsm_map_tss_error("policy")), 0, Absent, {})
    ELSE st(IF cbRet = 0 THEN HSM_SUCCESS ELSE HSM_ERR_INTERNAL, 1, f.data,
            {[buf |-> "unsealed", bytes |-> ZeroFill(f.data)]})

(* hsm_unseal_pin: the handles it obtains and flushes, the run of the      *)
(* consumer and the end of the unsealed buffer, on the path the fault      *)
(* selects                                                                 *)
linux_unseal_events(identity, hasCallback, cbRet, fault) ==
    LET f == blobs[identity]
        s1 == Obtain(NoCleanup, "primary", "primary")
        failed == Release(s1, "primary")
        s2 == Release(Obtain(s1, "loaded_key", "loaded_key"), "primary")
        s3 == Obtain(s2, "session", "session")
        s4 == Release(Release(s3, "session"), "loaded_key")
        s5 == [c |-> [s4.c EXCEPT !.unsealed = TRUE],
               ev |-> Append(s4.ev, <<"callback", "unsealed">>)]
    IN
    IF identity = NullPtr \/ ~hasCallback THEN <<>>
    ELSE IF linux_initialize(fault).ret # HSM_SUCCESS THEN <<>>
    ELSE IF f.st \in {"absent", "partial"} THEN unseal_cleanup(NoCleanup).ev
    ELSE IF fault.at = "create_primary" THEN unseal_cleanup(NoCleanup).ev
    ELSE IF fault.at = "load" \/ f.st = "zeroed"
    THEN unseal_cleanup(failed).ev
    ELSE IF fault.at = "start_session" THEN unseal_cleanup(s2).ev
    ELSE IF fault.at = "policy_pcr" THEN unseal_cleanup(s3).ev
    ELSE IF fault.at = "unseal" \/ f.policy # PolicyDigest(g_pcr_mask)
    THEN unseal_cleanup(s4).ev
    ELSE unseal_cleanup(s5).ev

(* hsm_unseal_pin: the TPM call that the call made and that failed *)
linux_unseal_tss(identity, hasCallback, fault) ==
    IF /\ identity # NullPtr
       /\ hasCallback
       /\ linux_initialize(fault).ret = HSM_SUCCESS
       /\ \/ /\ fault.at \in {"create_primary", "load"}
             /\ blobs[identity].st \in {"blob", "zeroed"}
          \/ /\ fault.at \in {"start_session", "policy_pcr", "unseal"}
             /\ blobs[identity].st = "blob"
    THEN fault ELSE NoFault

(* hsm_unseal_pin gets as far as Esys_Unseal *)
linux_decrypts(identity, hasCallback, fault) ==
    /\ identity # NullPtr
    /\ hasCallback
    /\ linux_initialize(fault).ret = HSM_SUCCESS
    /\ blobs[identity].st = "blob"
    /\ fault.at \notin {"create_primary", "load", "start_session",
                        "policy_pcr"}

LinuxUnsealPin ==
    /\ backend = "linux"
    /\ \E identity \in idSet, hasCallback \in BOOLEAN, cbRet \in CbResults,
          fault \in Allowed(LinuxUnsealFaults, NoFault) :
         /\ (g_initialized => fault \notin LinuxInitFaults)
         /\ hasCallback \/ (cbRet = 0 /\ fault = NoFault)
         /\ fault = NoFault \/ cbRet = 0
         /\ LET r == linux_unseal(identity, hasCallback, cbRet, fault) IN
             /\ dirExists' = r.dir
             /\ g_initialized' = r.init
             /\ g_esys_ctx' = r.ctx
             /\ last' =
                  LET ok == r = linux_unseal(identity, hasCallback, cbRet,
                                             NoFault)
                  IN [Obs("unseal", identity, NullPtr, r.ret, cbRet, r.calls,
                          r.got, ok,
                          /\ identity # NullPtr
                          /\ hasCallback
                          /\ ok
                          /\ blobs[identity].st = "blob"
                          /\ blobs[identity].policy = PolicyDigest(g_pcr_mask),
                          r.freed)
                      EXCEPT !.nullCb = ~hasCallback,
                             !.decrypt = linux_decrypts(identity, hasCallback,
                                                        fault),
                             !.events =
                                 IF traced
                                 THEN linux_unseal_events(identity,
                                          hasCallback, cbRet, fault)
                                 ELSE <<>>,
                             !.tss =
                                 IF traced
                                 THEN linux_unseal_tss(identity, hasCallback,
                                                       fault)
                                 ELSE NoTss]
             /\ Failure(last'.envOk)
    /\ UNCHANGED <<build, files, g_pcr_mask, pcr, blobs, darwinVars, gPin>>

linux_pin_exists(identity) ==
    IF identity = NullPtr THEN -1
    ELSE IF blobs[identity].st # "absent" THEN 1 ELSE 0

LinuxPinExists ==
    /\ backend = "linux"
    /\ \E identity \in idSet :
         last' = Obs("exists", identity, NullPtr, linux_pin_exists(identity),
                     0, 0, Absent, TRUE, FALSE, {})
    /\ UNCHANGED <<build, stubVars, linuxVars, darwinVars, gPin, failures>>

LinuxClearFaults == {"none", "unlink"}

(* hsm_clear_pin: zeros are written over the file when it opens; unlink of *)
(* a file that is not there sets ENOENT, which counts as success.          *)
linux_clear(identity, fault) ==
    IF identity = NullPtr
    THEN [ret |-> HSM_ERR_INVALID_IDENTITY, blobs |-> blobs]
    ELSE IF blobs[identity].st = "absent"
    THEN [ret |-> HSM_SUCCESS, blobs |-> blobs]
    ELSE IF fault = "unlink"
    THEN [ret |-> HSM_ERR_IO,
          blobs |-> [blobs EXCEPT ![identity] =
                        IF blobs[identity].st = "partial"
                        THEN Blob("partial", <<>>, {}, {})
                        ELSE Blob("zeroed", <<>>, {}, {})]]
    ELSE [ret |-> HSM_SUCCESS, blobs |-> [blobs EXCEPT ![identity] = NoBlob]]

LinuxClearPin ==
    /\ backend = "linux"
    /\ \E identity \in idSet, fault \in Allowed(LinuxClearFaults, "none") :
         LET r == linux_clear(identity, fault) IN
         /\ blobs' = r.blobs
         /\ last' = [Obs("clear", identity, NullPtr, r.ret, 0, 0, Absent,
                         r = linux_clear(identity, "none"), FALSE, {})
                     EXCEPT !.had = identity # NullPtr
                                     /\ blobs[identity].st # "absent"]
         /\ AfterClear(identity, r.ret, last'.had)
         /\ Failure(last'.envOk)
    /\ UNCHANGED <<build, stubVars, g_initialized, g_esys_ctx, g_pcr_mask,
                   pcr, darwinVars>>

LinuxClearAllFaults == {"none", "rm"}

(* hsm_clear_all: rm -f <dir>/*.tpm2 through system(), result not looked   *)
(* at; the pattern does not match the file ".tpm2".                        *)
linux_clear_all(fault) ==
    [ret |-> HSM_SUCCESS,
     blobs |-> IF fault = "rm" THEN blobs
               ELSE [i \in Keys |->
                        IF i = IdEmpty THEN blobs[i] ELSE NoBlob]]

LinuxClearAll ==
    /\ backend = "linux"
    /\ \E fault \in Allowed(LinuxClearAllFaults, "none") :
         LET r == linux_clear_all(fault) IN
         /\ blobs' = r.blobs
         /\ last' = Obs("clear_all", NullPtr, NullPtr, r.ret, 0, 0, Absent,
                        r = linux_clear_all("none"), FALSE, {})
         /\ AfterClearAll(r.ret)
         /\ Failure(last'.envOk)
    /\ UNCHANGED <<build, stubVars, g_initialized, g_esys_ctx, g_pcr_mask,
                   pcr, darwinVars>>

(* the masks a caller binds to: PCR 7, or PCRs 0 and 7 *)
PcrMasks == {DEFAULT_PCR_MASK, {0, 7}}
(* and a mask with bit 24 set, which names no PCR *)
WideMasks == PcrMasks \cup {{7, 24}}

(* hsm_tpm_set_pcr_binding: the mask later seals and unseals build their   *)
(* policy from                                                             *)
LinuxSetPcrBinding ==
    /\ backend = "linux"
    /\ \E pcr_mask \in maskSet :
         /\ g_pcr_mask' = pcr_mask
         /\ last' = Obs("set_pcr_binding", NullPtr, NullPtr, HSM_SUCCESS, 0,
                        0, Absent, TRUE, FALSE, {})
    /\ UNCHANGED <<build, stubVars, g_initialized, g_esys_ctx, pcr, blobs,
                   darwinVars, gPin, failures>>

(* the values a PCR takes: 0, and one more for every extend *)
MaxPcrValue == 1

(* the platform extends a PCR: a measured boot component or the Secure     *)
(* Boot state has changed                                                  *)
PcrExtend ==
    /\ backend = "linux"
    /\ \E p \in Pcrs :
         /\ pcr[p] < MaxPcrValue
         /\ pcr' = [pcr EXCEPT ![p] = @ + 1]
    /\ UNCHANGED <<build, stubVars, g_initialized, g_esys_ctx, g_pcr_mask,
                   blobs, darwinVars, last, gPin, failures>>

(* hsm_se_set_biometric: not available *)
LinuxSetBiometric ==
    /\ backend = "linux"
    /\ last' = Obs("set_biometric", NullPtr, NullPtr, HSM_ERR_NOT_AVAILABLE,
                   0, 0, Absent, TRUE, FALSE, {})
    /\ UNCHANGED <<build, stubVars, linuxVars, darwinVars, gPin, failures>>

(* ======================= hsm_darwin.c ======================= *)

(* an OSStatus, by the case osstatus_to_hsm_error sorts it into *)
osstatus_to_hsm_error(status) ==
    CASE status = "success" -> HSM_SUCCESS
      [] status = "itemNotFound" -> HSM_ERR_NOT_FOUND
      [] status = "authFailed" -> HSM_ERR_AUTH_FAILED
      [] status = "userCanceled" -> HSM_ERR_CANCELLED
      [] status = "interactionNotAllowed" -> HSM_ERR_PERMISSION
      [] status = "missingEntitlement" -> HSM_ERR_PERMISSION
      [] status = "allocate" -> HSM_ERR_MEMORY
      [] status = "io" -> HSM_ERR_IO
      [] status = "duplicateItem" -> HSM_SUCCESS
      [] OTHER -> HSM_ERR_INTERNAL

(* a CFErrorRef: "null", <<"os", status>> in the OSStatus domain,          *)
(* <<"la", code>> in the LocalAuthentication domain, <<"other", 0>>        *)
cferror_to_hsm_error(error) ==
    IF error[1] = "null" THEN HSM_ERR_INTERNAL
    ELSE IF error[1] = "os" THEN osstatus_to_hsm_error(error[2])
    ELSE IF error[1] = "la"
    THEN CASE error[2] = -1 -> HSM_ERR_AUTH_FAILED
           [] error[2] = -2 -> HSM_ERR_CANCELLED
           [] error[2] = -4 -> HSM_ERR_CANCELLED
           [] error[2] = -5 -> HSM_ERR_NOT_AVAILABLE
           [] error[2] = -6 -> HSM_ERR_NOT_AVAILABLE
           [] error[2] = -7 -> HSM_ERR_NOT_AVAILABLE
           [] error[2] = -8 -> HSM_ERR_AUTH_FAILED
           [] OTHER -> HSM_ERR_INTERNAL
    ELSE HSM_ERR_INTERNAL

(* the errors a failing Security.framework call is tried with *)
FaultStatuses == {"authFailed", "other"}
FaultCfErrors == {<<"la", -2>>, <<"la", -1>>, <<"os", "duplicateItem">>}

DFault(at, st, err) == [at |-> at, st |-> st, err |-> err]
NoDFault == DFault("none", "success", <<"null", 0>>)
OsFaults(steps) == {DFault(at, st, <<"null", 0>>) :
                       at \in steps, st \in FaultStatuses}
CfFaults(steps) == {DFault(at, "success", e) :
                       at \in steps, e \in FaultCfErrors}

(* the output of SecKeyCreateEncryptedData for a plaintext: a value that   *)
(* is no byte string of the model and that only SecKeyCreateDecryptedData  *)
(* with the matching key turns back                                        *)
Ecies(pin) == <<-3>> \o pin
IsEcies(data) == Len(data) > 0 /\ data[1] = -3
EciesPlain(data) == Tail(data)

(* store_encrypted_pin: SecItemDelete, result not looked at, then          *)
(* SecItemAdd; errSecDuplicateItem maps to success                         *)
store_encrypted_pin(identity, data, fault) ==
    LET afterDelete == IF fault.at = "delete" THEN items[identity] ELSE Absent
        status == IF fault.at = "add" THEN fault.st
                  ELSE IF afterDelete # Absent THEN "duplicateItem"
                  ELSE "success"
    IN [ret |-> osstatus_to_hsm_error(status),
        item |-> IF status = "success" THEN data ELSE afterDelete,
        stored |-> status = "success"]

(* get_or_create_se_key: the key of the identity, created when missing     *)
(* with the access control g_require_biometric asks for                    *)
get_or_create_se_key(identity, fault) ==
    IF seKeys[identity] # "none"
    THEN [err |-> HSM_SUCCESS, key |-> seKeys[identity], created |-> FALSE]
    ELSE IF fault.at = "key_create"
    THEN [err |-> cferror_to_hsm_error(fault.err), key |-> "none",
          created |-> FALSE]
    ELSE [err |-> HSM_SUCCESS,
          key |-> IF g_require_biometric THEN "bio" ELSE "plain",
          created |-> TRUE]

DarwinSealFaults ==
    {NoDFault} \cup CfFaults({"key_create", "encrypt"})
    \cup {DFault("pubkey", "success", <<"null", 0>>),
          DFault("delete", "success", <<"null", 0>>)}
    \cup OsFaults({"add"})

OrElse(err, dflt) == IF err # HSM_SUCCESS THEN err ELSE dflt

(* hsm_seal_pin: return code, the item, the key, keyMatch of the identity *)
darwin_seal(identity, pin, fault) ==
    LET out(ret, item, key, match) ==
            [ret |-> ret, item |-> item, key |-> key, match |-> match]
    IN
    IF identity = NullPtr \/ pin = NullPtr \/ Len(pin) = 0
       \/ Len(pin) > DARWIN_MAX_PIN_LEN
    THEN [ret |-> HSM_ERR_INVALID_IDENTITY, item |-> Absent, key |-> "none",
          match |-> FALSE, touched |-> FALSE]
    ELSE
    [touched |-> TRUE] @@
    IF seAvail
    THEN LET k == get_or_create_se_key(identity, fault)
             match == keyMatch[identity] /\ ~k.created
         IN
         IF k.key = "none"
         THEN out(OrElse(k.err, HSM_ERR_SEAL_FAILED), items[identity],
                  "none", match)
         ELSE IF fault.at = "pubkey"
         THEN out(HSM_ERR_SEAL_FAILED, items[identity], k.key, match)
         ELSE IF fault.at = "encrypt"
         THEN out(OrElse(cferror_to_hsm_error(fault.err), HSM_ERR_SEAL_FAILED),
                  items[identity], k.key, match)
         ELSE LET r == store_encrypted_pin(identity, Ecies(pin), fault) IN
              out(r.ret, r.item, k.key, IF r.stored THEN TRUE ELSE match)
    ELSE LET r == store_encrypted_pin(identity, pin, fault) IN
         out(r.ret, r.item, seKeys[identity], keyMatch[identity])

DarwinSealPin ==
    /\ backend = "darwin"
    /\ \E identity \in idSet, pin \in pinSet,
          fault \in Allowed(DarwinSealFaults, NoDFault) :
         LET r == darwin_seal(identity, pin, fault) IN
         /\ items' = IF r.touched THEN [items EXCEPT ![identity] = r.item]
                     ELSE items
         /\ seKeys' = IF r.touched THEN [seKeys EXCEPT ![identity] = r.key]
                      ELSE seKeys
         /\ keyMatch' = IF r.touched
                        THEN [keyMatch EXCEPT ![identity] = r.match]
                        ELSE keyMatch
         /\ last' = [Obs("seal", identity, pin, r.ret, 0, 0, Absent,
                         r = darwin_seal(identity, pin, NoDFault), FALSE, {})
                     EXCEPT !.prior = identity \in Keys
                                      /\ Sealed(identity)]
         /\ AfterSeal(identity, pin, r.ret)
         /\ Failure(last'.envOk)
    /\ UNCHANGED <<build, stubVars, linuxVars, g_require_biometric>>

(* the user dismisses the dialogue of SecKeyCreateDecryptedData:           *)
(* LAErrorUserCancel.  It is an answer of the user and no failure of the   *)
(* environment: it can be given at every unseal that uses a key whose      *)
(* access control asks for biometry                                        *)
UserCancel == DFault("decrypt", "success", <<"la", -2>>)

DarwinUnsealFaults ==
    {NoDFault} \cup OsFaults({"retrieve"})
    \cup CfFaults({"key_create", "decrypt"})

(* hsm_unseal_pin with retrieve_encrypted_pin.  With a Secure Enclave the  *)
(* key is looked up, or created when missing, and the item is decrypted;   *)
(* without one the item is handed over as it is.  The CFData objects are   *)
(* released by cf_guard_release, which calls CFRelease on each: the bytes  *)
(* of the plaintext object are what they were when the callback saw them.  *)
darwin_unseal(identity, hasCallback, cbRet, fault) ==
    LET out(ret, calls, got, freed, key, match) ==
            [ret |-> ret, calls |-> calls, got |-> got, freed |-> freed,
             key |-> key, match |-> match]
        cbCode == IF cbRet = 0 THEN HSM_SUCCESS ELSE HSM_ERR_INTERNAL
    IN
    IF identity = NullPtr \/ ~hasCallback
    THEN out(HSM_ERR_INVALID_IDENTITY, 0, Absent, {}, "none", FALSE)
         @@ [touched |-> FALSE]
    ELSE
    [touched |-> TRUE] @@
    LET encrypted == items[identity]
        key0 == seKeys[identity]
        match0 == keyMatch[identity]
    IN
    IF fault.at = "retrieve"
    THEN out(OrElse(osstatus_to_hsm_error(fault.st), HSM_ERR_NOT_FOUND), 0,
             Absent, {}, key0, match0)
    ELSE IF encrypted = Absent
    THEN out(OrElse(osstatus_to_hsm_error("itemNotFound"), HSM_ERR_NOT_FOUND),
             0, Absent, {}, key0, match0)
    ELSE IF seAvail
    THEN LET k == get_or_create_se_key(identity, fault)
             match == match0 /\ ~k.created
         IN
         IF k.key = "none"
         THEN out(OrElse(k.err, HSM_ERR_UNSEAL_FAILED), 0, Absent, {},
                  "none", match)
         ELSE IF fault.at = "decrypt"
         THEN out(OrElse(cferror_to_hsm_error(fault.err),
                         HSM_ERR_UNSEAL_FAILED),
                  0, Absent, {}, k.key, match)
         ELSE IF ~(IsEcies(encrypted) /\ match)
         THEN out(OrElse(cferror_to_hsm_error(<<"os", "decode">>),
                         HSM_ERR_UNSEAL_FAILED),
                  0, Absent, {}, k.key, match)
         ELSE out(cbCode, 1, EciesPlain(encrypted),
                  {[buf |-> "decrypted", bytes |-> EciesPlain(encrypted)]},
                  k.key, match)
    ELSE out(cbCode, 1, encrypted,
             {[buf |-> "encrypted", bytes |-> encrypted]}, key0, match0)

(* hsm_unseal_pin gets as far as SecKeyCreateDecryptedData *)
darwin_decrypts(identity, hasCallback, fault) ==
    /\ identity # NullPtr
    /\ hasCallback
    /\ fault.at # "retrieve"
    /\ items[identity] # Absent
    /\ seAvail
    /\ get_or_create_se_key(identity, fault).key # "none"

(* SecKeyCreateDecryptedData asks the user: the key's access control has   *)
(* kSecAccessControlBiometryCurrentSet, or LocalAuthentication answered    *)
darwin_prompts(identity, hasCallback, fault) ==
    /\ darwin_decrypts(identity, hasCallback, fault)
    /\ \/ get_or_create_se_key(identity, fault).key = "bio"
       \/ fault.at = "decrypt" /\ fault.err[1] = "la"

DarwinUnsealPin ==
    /\ backend = "darwin"
    /\ \E identity \in idSet, hasCallback \in BOOLEAN, cbRet \in CbResults,
          fault \in Allowed(DarwinUnsealFaults, NoDFault) \cup {UserCancel} :
         /\ fault = UserCancel
              => /\ darwin_decrypts(identity, hasCallback, fault)
                 /\ get_or_create_se_key(identity, fault).key = "bio"
         /\ hasCallback \/ (cbRet = 0 /\ fault = NoDFault)
         /\ fault = NoDFault \/ cbRet = 0
         /\ LET r == darwin_unseal(identity, hasCallback, cbRet, fault) IN
             /\ seKeys' = IF r.touched THEN [seKeys EXCEPT ![identity] = r.key]
                          ELSE seKeys
             /\ keyMatch' = IF r.touched
                            THEN [keyMatch EXCEPT ![identity] = r.match]
                            ELSE keyMatch
             /\ last' =
                  LET ok == r = darwin_unseal(identity, hasCallback, cbRet,
                                              NoDFault)
                  IN [Obs("unseal", identity, NullPtr, r.ret, cbRet, r.calls,
                          r.got, ok,
                          /\ identity # NullPtr
                          /\ hasCallback
                          /\ ok
                          /\ items[identity] # Absent
                          /\ seAvail => /\ IsEcies(items[identity])
                                        /\ seKeys[identity] # "none"
                                        /\ keyMatch[identity],
                          r.freed)
                      EXCEPT !.nullCb = ~hasCallback,
                             !.decrypt = darwin_decrypts(identity, hasCallback,
                                                         fault),
                             !.prompt = darwin_prompts(identity, hasCallback,
                                                       fault),
                             !.dismissed =
                                /\ darwin_decrypts(identity, hasCallback,
                                                   fault)
                                /\ fault = UserCancel]
             /\ Failure(last'.envOk \/ fault = UserCancel)
    /\ UNCHANGED <<build, stubVars, linuxVars, g_require_biometric, items,
                   gPin>>

darwin_pin_exists(identity) ==
    IF identity = NullPtr THEN -1
    ELSE IF items[identity] # Absent THEN 1 ELSE 0

(* an existence check that fetches the key of the identity the way         *)
(* hsm_unseal_pin does                                                     *)
DarwinPinExists_fetchesKey ==
    /\ backend = "darwin"
    /\ \E identity \in idSet :
         /\ last' = Obs("exists", identity, NullPtr,
                        darwin_pin_exists(identity), 0, 0, Absent, TRUE, FALSE,
                        {})
         /\ seKeys' = IF identity \in Keys /\ seAvail
                      THEN [seKeys EXCEPT ![identity] =
                              get_or_create_se_key(identity, NoDFault).key]
                      ELSE seKeys
    /\ UNCHANGED <<build, stubVars, linuxVars, g_require_biometric, items,
                   keyMatch, gPin, failures>>

DarwinPinExists ==
    /\ backend = "darwin"
    /\ \E identity \in idSet :
         last' = Obs("exists", identity, NullPtr, darwin_pin_exists(identity),
                     0, 0, Absent, TRUE, FALSE, {})
    /\ UNCHANGED <<build, stubVars, linuxVars, darwinVars, gPin, failures>>

DarwinClearFaults ==
    {NoDFault} \cup OsFaults({"delete"})
    \cup {DFault("key_delete", "success", <<"null", 0>>)}

(* delete_se_key: the key is gone unless SecItemDelete fails *)
delete_se_key(identity, fault) ==
    IF fault.at = "key_delete" THEN seKeys[identity] ELSE "none"

(* hsm_clear_pin: SecItemDelete of the item, then delete_se_key, whose     *)
(* result is not looked at; success when the item was deleted or not there *)
darwin_clear(identity, fault) ==
    IF identity = NullPtr
    THEN [ret |-> HSM_ERR_INVALID_IDENTITY, touched |-> FALSE,
          item |-> Absent, key |-> "none"]
    ELSE LET status == IF items[identity] = Absent THEN "itemNotFound"
                       ELSE IF fault.at = "delete" THEN fault.st
                       ELSE "success"
         IN [ret |-> IF status \in {"success", "itemNotFound"}
                     THEN HSM_SUCCESS ELSE osstatus_to_hsm_error(status),
             touched |-> TRUE,
             item |-> IF status = "success" THEN Absent ELSE items[identity],
             key |-> delete_se_key(identity, fault)]

DarwinClearPin ==
    /\ backend = "darwin"
    /\ \E identity \in idSet, fault \in Allowed(DarwinClearFaults, NoDFault) :
         LET r == darwin_clear(identity, fault) IN
         /\ items' = IF r.touched THEN [items EXCEPT ![identity] = r.item]
                     ELSE items
         /\ seKeys' = IF r.touched THEN [seKeys EXCEPT ![identity] = r.key]
                      ELSE seKeys
         /\ keyMatch' = IF r.touched /\ r.key = "none"
                        THEN [keyMatch EXCEPT ![identity] = FALSE]
                        ELSE keyMatch
         /\ last' = [Obs("clear", identity, NullPtr, r.ret, 0, 0, Absent,
                         r = darwin_clear(identity, NoDFault), FALSE, {})
                     EXCEPT !.had = identity # NullPtr
                                     /\ items[identity] # Absent]
         /\ AfterClear(identity, r.ret, last'.had)
         /\ Failure(last'.envOk)
    /\ UNCHANGED <<build, stubVars, linuxVars, g_require_biometric>>

DarwinClearAllFaults == {"none", "query", "delete"}

(* hsm_clear_all: the items are listed; each item of the service prefix is *)
(* deleted, result not looked at, and then the key of its identity when    *)
(* the name is not empty.  A failing listing deletes nothing.  The call    *)
(* returns success in every case.                                          *)
darwin_clear_all(fault) ==
    LET listed == IF fault = "query" THEN {}
                  ELSE {i \in Keys : items[i] # Absent}
    IN [ret |-> HSM_SUCCESS,
        items |-> [i \in Keys |->
                     IF i \in listed /\ fault # "delete" THEN Absent
                     ELSE items[i]],
        keys |-> [i \in Keys |->
                     IF i \in listed /\ Len(i) > 0 THEN "none"
                     ELSE seKeys[i]]]

DarwinClearAll ==
    /\ backend = "darwin"
    /\ \E fault \in Allowed(DarwinClearAllFaults, "none") :
         LET r == darwin_clear_all(fault) IN
         /\ items' = r.items
         /\ seKeys' = r.keys
         /\ keyMatch' = [i \in Keys |-> keyMatch[i] /\ r.keys[i] # "none"]
         /\ last' = Obs("clear_all", NullPtr, NullPtr, r.ret, 0, 0, Absent,
                        r = darwin_clear_all("none"), FALSE, {})
         /\ AfterClearAll(r.ret)
         /\ Failure(last'.envOk)
    /\ UNCHANGED <<build, stubVars, linuxVars, g_require_biometric>>

(* hsm_initialize: g_initialized = 1 *)
DarwinInitialize ==
    /\ backend = "darwin"
    /\ g_initialized' = TRUE
    /\ last' = Obs("initialize", NullPtr, NullPtr, HSM_SUCCESS, 0, 0, Absent,
                   TRUE, FALSE, {})
    /\ UNCHANGED <<build, stubVars, g_esys_ctx, g_pcr_mask, pcr, blobs,
                   darwinVars, gPin, failures>>

(* hsm_tpm_set_pcr_binding: not available *)
DarwinSetPcrBinding ==
    /\ backend = "darwin"
    /\ last' = Obs("set_pcr_binding", NullPtr, NullPtr, HSM_ERR_NOT_AVAILABLE,
                   0, 0, Absent, TRUE, FALSE, {})
    /\ UNCHANGED <<build, stubVars, linuxVars, darwinVars, gPin, failures>>

(* hsm_se_set_biometric: the flag that keys created from now on get their  *)
(* access control from                                                     *)
DarwinSetBiometric ==
    /\ backend = "darwin"
    /\ \E require_biometric \in BOOLEAN :
         /\ g_require_biometric' = require_biometric
         /\ last' = Obs("set_biometric", NullPtr, NullPtr, HSM_SUCCESS, 0, 0,
                        Absent, TRUE, FALSE, {})
    /\ UNCHANGED <<build, stubVars, linuxVars, items, seKeys, keyMatch, gPin,
                   failures>>

(* ======================= c_src/hsm.c ======================= *)

(* validate_identity: 1 when the name is accepted, 0 when not *)
validate_identity(identity) ==
    IF identity = NullPtr \/ Len(identity) = 0 THEN 0
    ELSE IF \E k \in DOMAIN identity :
               \/ identity[k] \in {47, 92, 46}
               \/ identity[k] < 32
               \/ identity[k] > 126
    THEN 0
    ELSE 1

ValidateIdentity ==
    /\ \E identity \in idSet :
         last' = Obs("validate", identity, NullPtr,
                     validate_identity(identity), 0, 0, Absent, TRUE, FALSE,
                     {})
    /\ UNCHANGED <<build, stubVars, linuxVars, darwinVars, gPin, failures>>

(* ======================= calls from several threads ================== *)
(* No source file takes a lock, so two calls interleave at every access to *)
(* the files, the keychain and the statics.  A call is cut at those        *)
(* accesses; what lies between two of them touches only the thread's own   *)
(* memory.  stdio buffers what fwrite and fgetc move, so the bytes of a    *)
(* file are written by one write at fclose and read by one read.           *)

Threads == {1, 2}

(* calls begun by all threads together *)
MaxCalls == 3

(* thread k seals "pin-k" *)
ThreadPin(t) == IF t = 1 THEN PinBin ELSE PinOne

(* pc: the step the thread is at; n: the calls it has begun; op, id, pin:  *)
(* its call; snap: the bytes it has read; ret, got: the result of its      *)
(* finished call and what the consumer was given; had: a seal of id had    *)
(* returned success when the call began; clash: another thread used the    *)
(* ESYS context while this one did, or the file the thread holds open was  *)
(* unlinked; made: the thread has created an ESYS context                  *)
Idle == [pc |-> "idle", n |-> 0, op |-> "none", id |-> NullPtr,
         pin |-> NullPtr, snap |-> Absent, ret |-> 0, got |-> Absent,
         had |-> FALSE, clash |-> FALSE, made |-> FALSE]

CallsBegun == th[1].n + th[2].n

(* a thread enters hsm_seal_pin or hsm_unseal_pin with valid arguments *)
ConcBegin(t) ==
    /\ th[t].pc \in {"idle", "done"}
    /\ CallsBegun < MaxCalls
    /\ \E op \in {"seal", "unseal"}, identity \in Keys :
         /\ th' = [th EXCEPT ![t] =
                     [Idle EXCEPT !.pc = "start", !.n = th[t].n + 1,
                                  !.op = op, !.id = identity,
                                  !.pin = IF op = "seal" THEN ThreadPin(t)
                                          ELSE NullPtr,
                                  !.had = Sealed(identity)]]
         /\ started' = [started EXCEPT ![identity] = @ \cup {<<t, op>>}]
    /\ UNCHANGED <<backend, seAvail, idSet, pinSet, maskSet,
                   stubVars, linuxVars,
                   darwinVars, last, gPin, failures, detVars, guardVars,
                   keychain, traced, sf>>

(* what a step of a call leaves alone whatever the backend *)
concFrame ==
    <<backend, seAvail, idSet, pinSet, maskSet,
      started, last, failures, detVars,
      guardVars, keychain, traced, sf>>

At(t, op, pc) == th[t].op = op /\ th[t].pc = pc

Goto(t, pc) == th' = [th EXCEPT ![t].pc = pc]

Return(t, ret, got) ==
    /\ th' = [th EXCEPT ![t].pc = "done", ![t].ret = ret, ![t].got = got]
    /\ IF th[t].op = "seal" THEN AfterSeal(th[t].id, th[t].pin, ret)
       ELSE UNCHANGED gPin

(* ---- hsm_stub.c ---- *)

(* a write of data at offset 0 of a file that holds old *)
WriteAt0(old, data) ==
    IF Len(old) <= Len(data) THEN data
    ELSE data \o SubSeq(old, Len(data) + 1, Len(old))

(* hsm_seal_pin: system("mkdir -p ...") *)
StubSealMkdir(t) ==
    /\ backend = "stub"
    /\ At(t, "seal", "start")
    /\ dirExists' = TRUE
    /\ Goto(t, "fopen")
    /\ UNCHANGED <<concFrame, files, linuxVars, darwinVars, gPin>>

(* hsm_seal_pin: fopen(filepath, "wb") creates or truncates the file *)
StubSealOpen(t) ==
    /\ backend = "stub"
    /\ At(t, "seal", "fopen")
    /\ files' = [files EXCEPT ![th[t].id] = <<>>]
    /\ Goto(t, "fclose")
    /\ UNCHANGED <<concFrame, dirExists, linuxVars, darwinVars, gPin>>

(* hsm_seal_pin: fclose writes the buffered bytes; the call returns.  The  *)
(* bytes go to the file the stream was opened on: when that file has been  *)
(* unlinked since (clash), no name leads to them                           *)
StubSealClose(t) ==
    /\ backend = "stub"
    /\ At(t, "seal", "fclose")
    /\ files' = IF th[t].clash THEN files
                ELSE [files EXCEPT ![th[t].id] =
                        WriteAt0(@, XorKey(th[t].pin))]
    /\ Return(t, HSM_SUCCESS, Absent)
    /\ UNCHANGED <<concFrame, dirExists, linuxVars, darwinVars>>

(* hsm_unseal_pin: fopen(filepath, "rb") *)
StubUnsealOpen(t) ==
    /\ backend = "stub"
    /\ At(t, "unseal", "start")
    /\ IF files[th[t].id] = Absent
       THEN Return(t, HSM_ERR_NOT_FOUND, Absent)
       ELSE Goto(t, "fgetc") /\ UNCHANGED gPin
    /\ UNCHANGED <<concFrame, stubVars, linuxVars, darwinVars>>

(* hsm_unseal_pin: the first fgetc reads the file; the bytes are XORed     *)
(* back and handed to the callback, which returns 0.  A file unlinked      *)
(* since the fopen (clash) still has the bytes it had then (snap)          *)
StubUnsealRead(t) ==
    /\ backend = "stub"
    /\ At(t, "unseal", "fgetc")
    /\ LET data == IF th[t].clash THEN th[t].snap ELSE files[th[t].id]
           pin == XorKey(Take(data, STUB_MAX_PIN_LEN))
       IN
       IF Len(pin) = 0 THEN Return(t, HSM_ERR_NOT_FOUND, Absent)
       ELSE Return(t, HSM_SUCCESS, pin)
    /\ UNCHANGED <<concFrame, stubVars, linuxVars, darwinVars>>

(* a thread enters hsm_clear_pin with a valid argument *)
ClearBegin(t) ==
    /\ th[t].pc \in {"idle", "done"}
    /\ CallsBegun < MaxCalls
    /\ \E identity \in Keys :
         /\ th' = [th EXCEPT ![t] =
                     [Idle EXCEPT !.pc = "start", !.n = th[t].n + 1,
                                  !.op = "clear", !.id = identity,
                                  !.had = Sealed(identity)]]
         /\ started' = [started EXCEPT ![identity] = @ \cup {<<t, "clear">>}]
    /\ UNCHANGED <<backend, seAvail, idSet, pinSet, maskSet,
                   stubVars, linuxVars,
                   darwinVars, last, gPin, failures, detVars, guardVars,
                   keychain, traced, sf>>

clearFrame ==
    <<backend, seAvail, idSet, pinSet, maskSet,
      started, last, detVars, guardVars,
      keychain, traced, sf, dirExists, linuxVars,
      darwinVars>>

(* hsm_clear_pin: fopen(filepath, "r+b"), fseek, ftell.  It fails for a    *)
(* file that is not there and for one the process may not write; the call  *)
(* goes on to remove() either way.  snap: the zeros the loop will write    *)
StubClearOpen(t) ==
    /\ backend = "stub"
    /\ At(t, "clear", "start")
    /\ \E opens \in (IF files[th[t].id] = Absent THEN {FALSE}
                      ELSE Allowed(BOOLEAN, TRUE)) :
         /\ th' = [th EXCEPT ![t].pc = IF opens THEN "fwrite" ELSE "remove",
                             ![t].snap = IF opens
                                         THEN ZeroFill(files[th[t].id])
                                         ELSE Absent]
         /\ Failure(opens \/ files[th[t].id] = Absent)
    /\ UNCHANGED <<clearFrame, files, gPin>>

(* hsm_clear_pin: the fwrite loop and fclose, which writes the zeros *)
StubClearZero(t) ==
    /\ backend = "stub"
    /\ At(t, "clear", "fwrite")
    /\ files' = IF th[t].clash THEN files
                ELSE [files EXCEPT ![th[t].id] = WriteAt0(@, th[t].snap)]
    /\ Goto(t, "remove")
    /\ UNCHANGED <<clearFrame, failures, gPin>>

(* the threads other than t that hold a stream on the file of i *)
Holders(t, i) ==
    {u \in Threads \ {t} :
       /\ th[u].id = i
       /\ ~th[u].clash
       /\ \/ At(u, "seal", "fclose")
          \/ At(u, "unseal", "fgetc")
          \/ At(u, "clear", "fwrite")}

(* the threads after the file of i has been unlinked: a reader keeps the   *)
(* bytes the file had                                                      *)
Unlinked(t, i, mine) ==
    [u \in Threads |->
       IF u = t THEN mine
       ELSE IF u \in Holders(t, i)
       THEN [th[u] EXCEPT !.clash = TRUE,
                          !.snap = IF th[u].op = "unseal" THEN files[i]
                                   ELSE @]
       ELSE th[u]]

(* hsm_clear_pin: remove(filepath); the call returns *)
StubClearRemove(t) ==
    /\ backend = "stub"
    /\ At(t, "clear", "remove")
    /\ LET i == th[t].id
           gone == files[i] # Absent
           done(ret) == [th[t] EXCEPT !.pc = "done", !.ret = ret]
       IN
       /\ files' = [files EXCEPT ![i] = Absent]
       /\ th' = IF gone THEN Unlinked(t, i, done(HSM_SUCCESS))
                ELSE [th EXCEPT ![t] = done(HSM_ERR_IO)]
       /\ AfterClear(i, IF gone THEN HSM_SUCCESS ELSE HSM_ERR_IO, gone)
    /\ UNCHANGED <<clearFrame, failures>>

(* hsm_clear_all: system("rm -f <dir>/*.pin") unlinks the files; the call  *)
(* returns success                                                         *)
StubClearAllRm(t) ==
    /\ backend = "stub"
    /\ th[t].pc \in {"idle", "done"}
    /\ CallsBegun < MaxCalls
    /\ files' = [i \in Keys |-> IF i = IdEmpty THEN files[i] ELSE Absent]
    /\ th' = [u \in Threads |->
                IF u = t
                THEN [Idle EXCEPT !.pc = "done", !.n = th[t].n + 1,
                                  !.op = "clear_all"]
                ELSE IF th[u].id \in Keys /\ th[u].id # IdEmpty
                        /\ files[th[u].id] # Absent
                        /\ u \in Holders(t, th[u].id)
                THEN [th[u] EXCEPT !.clash = TRUE,
                                   !.snap = IF th[u].op = "unseal"
                                            THEN files[th[u].id] ELSE @]
                ELSE th[u]]
    /\ AfterClearAll(HSM_SUCCESS)
    /\ UNCHANGED <<clearFrame, failures>>

(* ---- hsm_linux.c ---- *)

(* hsm_seal_pin, hsm_unseal_pin: if (!g_initialized) hsm_initialize() *)
LinuxConcInit(t) ==
    /\ backend = "linux"
    /\ th[t].pc = "start"
    /\ LET i == linux_initialize(NoFault) IN
       /\ g_initialized' = i.init
       /\ g_esys_ctx' = i.ctx
       /\ dirExists' = i.dir
    /\ Goto(t, IF th[t].op = "seal" THEN "tpm" ELSE "fopen")
    /\ UNCHANGED <<concFrame, files, g_pcr_mask, pcr, blobs, darwinVars, gPin>>

(* a thread enters hsm_initialize *)
InitBegin(t) ==
    /\ backend = "linux"
    /\ th[t].pc \in {"idle", "done"}
    /\ CallsBegun < MaxCalls
    /\ th' = [th EXCEPT ![t] =
                [Idle EXCEPT !.pc = "start", !.n = th[t].n + 1,
                             !.op = "initialize", !.made = th[t].made]]
    /\ UNCHANGED <<concFrame, stubVars, linuxVars, darwinVars, gPin>>

(* hsm_initialize: if (g_initialized) return HSM_SUCCESS *)
LinuxInitCheck(t) ==
    /\ backend = "linux"
    /\ At(t, "initialize", "start")
    /\ th' = [th EXCEPT ![t].pc = IF g_initialized THEN "done"
                                  ELSE "init_esys",
                        ![t].ret = HSM_SUCCESS]
    /\ UNCHANGED <<concFrame, stubVars, linuxVars, darwinVars, gPin>>

(* init_esys: if (g_esys_ctx) return HSM_SUCCESS *)
LinuxInitEsysCheck(t) ==
    /\ backend = "linux"
    /\ At(t, "initialize", "init_esys")
    /\ Goto(t, IF g_esys_ctx THEN "mkdir" ELSE "esys_initialize")
    /\ UNCHANGED <<concFrame, stubVars, linuxVars, darwinVars, gPin>>

(* init_esys: Tss2_TctiLdr_Initialize, then Esys_Initialize(&g_esys_ctx,   *)
(* ...) stores a new context in g_esys_ctx                                 *)
LinuxInitEsys(t) ==
    /\ backend = "linux"
    /\ At(t, "initialize", "esys_initialize")
    /\ g_esys_ctx' = TRUE
    /\ th' = [th EXCEPT ![t].pc = "mkdir", ![t].made = TRUE]
    /\ UNCHANGED <<concFrame, stubVars, g_initialized, g_pcr_mask, pcr,
                   blobs, darwinVars, gPin>>

(* hsm_initialize: ensure_storage_dir *)
LinuxInitMkdir(t) ==
    /\ backend = "linux"
    /\ At(t, "initialize", "mkdir")
    /\ dirExists' = TRUE
    /\ Goto(t, "set")
    /\ UNCHANGED <<concFrame, files, linuxVars, darwinVars, gPin>>

(* hsm_initialize: g_initialized = 1; return HSM_SUCCESS *)
LinuxInitSet(t) ==
    /\ backend = "linux"
    /\ At(t, "initialize", "set")
    /\ g_initialized' = TRUE
    /\ Goto(t, "done")
    /\ UNCHANGED <<concFrame, stubVars, g_esys_ctx, g_pcr_mask, pcr, blobs,
                   darwinVars, gPin>>

(* the first Esys call of a call on g_esys_ctx.  The context is one object *)
(* that every thread drives without a lock: when two threads are between   *)
(* their first and last Esys call at once, both calls have raced on it     *)
LinuxTpmEnter(t) ==
    /\ backend = "linux"
    /\ th[t].pc = "tpm"
    /\ LET in == {u \in Threads \ {t} : th[u].pc = "tpm_in"} IN
       th' = [u \in Threads |->
                IF u = t THEN [th[u] EXCEPT !.pc = "tpm_in",
                                            !.clash = in # {}]
                ELSE IF u \in in THEN [th[u] EXCEPT !.clash = TRUE]
                ELSE th[u]]
    /\ UNCHANGED <<concFrame, stubVars, linuxVars, darwinVars, gPin>>

(* hsm_seal_pin: Esys_Create has returned.  After a race on the context    *)
(* the calls may have gone well or have failed with a code that            *)
(* hsm_map_tss_error does not know                                         *)
LinuxSealTpmLeave(t) ==
    /\ backend = "linux"
    /\ At(t, "seal", "tpm_in")
    /\ \E ok \in (IF th[t].clash THEN BOOLEAN ELSE {TRUE}) :
         IF ok THEN Goto(t, "fopen") /\ UNCHANGED gPin
         ELSE Return(t, SealRemap(hsm_map_tss_error("other")), Absent)
    /\ UNCHANGED <<concFrame, stubVars, linuxVars, darwinVars>>

(* hsm_seal_pin: fopen(path, "wb") creates or truncates the file *)
LinuxSealOpen(t) ==
    /\ backend = "linux"
    /\ At(t, "seal", "fopen")
    /\ blobs' = [blobs EXCEPT ![th[t].id] = Blob("partial", <<>>, {}, {})]
    /\ Goto(t, "fclose")
    /\ UNCHANGED <<concFrame, stubVars, g_initialized, g_esys_ctx, g_pcr_mask,
                   pcr, darwinVars, gPin>>

(* hsm_seal_pin: fclose writes the two blobs at offset 0.  Each blob       *)
(* starts with its size, so bytes that a longer file holds after them are  *)
(* never read                                                              *)
LinuxSealClose(t) ==
    /\ backend = "linux"
    /\ At(t, "seal", "fclose")
    /\ blobs' = [blobs EXCEPT ![th[t].id] =
                   Blob("blob", th[t].pin, PolicyDigest(g_pcr_mask),
                        g_pcr_mask)]
    /\ Return(t, HSM_SUCCESS, Absent)
    /\ UNCHANGED <<concFrame, stubVars, g_initialized, g_esys_ctx, g_pcr_mask,
                   pcr, darwinVars>>

(* hsm_unseal_pin: fopen(path, "rb") *)
LinuxUnsealOpen(t) ==
    /\ backend = "linux"
    /\ At(t, "unseal", "fopen")
    /\ IF blobs[th[t].id].st = "absent"
       THEN Return(t, HSM_ERR_NOT_FOUND, Absent)
       ELSE Goto(t, "fread") /\ UNCHANGED gPin
    /\ UNCHANGED <<concFrame, stubVars, linuxVars, darwinVars>>

(* hsm_unseal_pin: the first fread reads the file; a file without the two  *)
(* blobs is an I/O error                                                   *)
LinuxUnsealRead(t) ==
    /\ backend = "linux"
    /\ At(t, "unseal", "fread")
    /\ IF blobs[th[t].id].st # "blob"
       THEN Return(t, HSM_ERR_IO, Absent)
       ELSE /\ th' = [th EXCEPT ![t].pc = "tpm",
                                ![t].snap = blobs[th[t].id].data]
            /\ UNCHANGED gPin
    /\ UNCHANGED <<concFrame, stubVars, linuxVars, darwinVars>>

(* hsm_unseal_pin: Esys_Unseal has returned; the callback, which returns   *)
(* 0, is given the unsealed bytes                                          *)
LinuxUnsealTpmLeave(t) ==
    /\ backend = "linux"
    /\ At(t, "unseal", "tpm_in")
    /\ \E ok \in (IF th[t].clash THEN BOOLEAN ELSE {TRUE}) :
         IF ok THEN Return(t, HSM_SUCCESS, th[t].snap)
         ELSE Return(t, map_unseal_error("other"), Absent)
    /\ UNCHANGED <<concFrame, stubVars, linuxVars, darwinVars>>

(* ---- hsm_darwin.c ---- *)

(* hsm_seal_pin: get_or_create_se_key and SecKeyCreateEncryptedData, when  *)
(* there is a Secure Enclave; th[t].snap is the data to store              *)
DarwinSealEncrypt(t) ==
    /\ backend = "darwin"
    /\ At(t, "seal", "start")
    /\ LET k == get_or_create_se_key(th[t].id, NoDFault) IN
       /\ seKeys' = IF seAvail THEN [seKeys EXCEPT ![th[t].id] = k.key]
                    ELSE seKeys
       /\ keyMatch' = IF seAvail /\ k.created
                      THEN [keyMatch EXCEPT ![th[t].id] = FALSE]
                      ELSE keyMatch
    /\ th' = [th EXCEPT ![t].pc = "delete",
                        ![t].snap = IF seAvail THEN Ecies(th[t].pin)
                                    ELSE th[t].pin]
    /\ UNCHANGED <<concFrame, stubVars, linuxVars, g_require_biometric, items,
                   gPin>>

(* store_encrypted_pin: SecItemDelete *)
DarwinSealDelete(t) ==
    /\ backend = "darwin"
    /\ At(t, "seal", "delete")
    /\ items' = [items EXCEPT ![th[t].id] = Absent]
    /\ Goto(t, "add")
    /\ UNCHANGED <<concFrame, stubVars, linuxVars, g_require_biometric, seKeys,
                   keyMatch, gPin>>

(* store_encrypted_pin: SecItemAdd.  An item that another call added since *)
(* the delete makes it errSecDuplicateItem, which is returned as success   *)
DarwinSealAdd(t) ==
    /\ backend = "darwin"
    /\ At(t, "seal", "add")
    /\ LET status == IF items[th[t].id] # Absent THEN "duplicateItem"
                     ELSE "success"
       IN
       /\ items' = IF status = "success"
                   THEN [items EXCEPT ![th[t].id] = th[t].snap]
                   ELSE items
       /\ keyMatch' = IF status = "success" /\ seAvail
                      THEN [keyMatch EXCEPT ![th[t].id] = TRUE]
                      ELSE keyMatch
       /\ Return(t, osstatus_to_hsm_error(status), Absent)
    /\ UNCHANGED <<concFrame, stubVars, linuxVars, g_require_biometric,
                   seKeys>>

(* hsm_unseal_pin: retrieve_encrypted_pin *)
DarwinUnsealRetrieve(t) ==
    /\ backend = "darwin"
    /\ At(t, "unseal", "start")
    /\ IF items[th[t].id] = Absent
       THEN Return(t, OrElse(osstatus_to_hsm_error("itemNotFound"),
                             HSM_ERR_NOT_FOUND), Absent)
       ELSE /\ th' = [th EXCEPT ![t].pc = "decrypt",
                                ![t].snap = items[th[t].id]]
            /\ UNCHANGED gPin
    /\ UNCHANGED <<concFrame, stubVars, linuxVars, darwinVars>>

(* hsm_unseal_pin: the rest of the call on the data retrieved; the         *)
(* callback returns 0                                                      *)
DarwinUnsealDecrypt(t) ==
    /\ backend = "darwin"
    /\ At(t, "unseal", "decrypt")
    /\ LET k == get_or_create_se_key(th[t].id, NoDFault)
           match == keyMatch[th[t].id] /\ ~k.created
       IN
       /\ seKeys' = IF seAvail THEN [seKeys EXCEPT ![th[t].id] = k.key]
                    ELSE seKeys
       /\ keyMatch' = IF seAvail THEN [keyMatch EXCEPT ![th[t].id] = match]
                      ELSE keyMatch
       /\ IF ~seAvail THEN Return(t, HSM_SUCCESS, th[t].snap)
          ELSE IF ~(IsEcies(th[t].snap) /\ match)
          THEN Return(t, OrElse(cferror_to_hsm_error(<<"os", "decode">>),
                                HSM_ERR_UNSEAL_FAILED), Absent)
          ELSE Return(t, HSM_SUCCESS, EciesPlain(th[t].snap))
    /\ UNCHANGED <<concFrame, stubVars, linuxVars, g_require_biometric, items>>

(* ======================= resource guards ======================= *)

CF_GUARD_MAX_REFS == 16

(* the objects a behaviour makes: one more than a guard has room for; 0 is *)
(* the NULL reference                                                      *)
MaxRefs == 17
Refs == 1..MaxRefs

(* { .refs = {NULL}, .count = 0 } *)
CF_GUARD_INIT ==
    [refs |-> [k \in 0..(CF_GUARD_MAX_REFS - 1) |-> 0], count |-> 0]

(* cf_guard_add: the guard after the call *)
cf_guard_add(guard, ref) ==
    IF ref # 0 /\ guard.count < CF_GUARD_MAX_REFS
    THEN [refs |-> [guard.refs EXCEPT ![guard.count] = ref],
          count |-> guard.count + 1]
    ELSE guard

(* the CFRelease calls of the loop for (i = count - 1; i >= 0; i--) *)
RECURSIVE CfReleaseFrom(_, _)
CfReleaseFrom(refs, i) ==
    IF i < 0 THEN <<>>
    ELSE (IF refs[i] # 0 THEN <<refs[i]>> ELSE <<>>)
           \o CfReleaseFrom(refs, i - 1)

(* a cf_guard_release that leaves the references and the count in place *)
cf_guard_release_keepsRefs(guard) ==
    [guard |-> guard, released |-> CfReleaseFrom(guard.refs, guard.count - 1)]

(* cf_guard_release: the guard after the call and the objects given to     *)
(* CFRelease, in order                                                     *)
cf_guard_release(guard) ==
    [guard |-> [refs |-> [k \in DOMAIN guard.refs |->
                            IF k < guard.count THEN 0 ELSE guard.refs[k]],
                count |-> 0],
     released |-> CfReleaseFrom(guard.refs, guard.count - 1)]

(* what a release does to an object or a handle *)
AfterRelease(state) ==
    CASE state = "held" -> "released"
      [] state = "released" -> "again"
      [] OTHER -> state

Times(seq, x) == Cardinality({k \in DOMAIN seq : seq[k] = x})

ReleaseAll(states, seq) ==
    [x \in DOMAIN states |->
       IF Times(seq, x) = 0 THEN states[x]
       ELSE IF Times(seq, x) = 1 THEN AfterRelease(states[x])
       ELSE "again"]

guardFrame == <<backend, seAvail, idSet, pinSet, maskSet, th, started, detVars,
                stubVars, linuxVars, darwinVars, last, gPin, failures,
                keychain, traced, sf>>

(* a function of hsm_darwin.c makes an object, or fails to and gets NULL,  *)
(* and hands the result to cf_guard_add                                    *)
CfGuardAdd ==
    /\ backend = "darwin"
    /\ \E ref \in Refs \cup {0} :
         /\ ref # 0 => /\ cf_refs[ref] = "unmade"
                       /\ \A r \in Refs : r < ref => cf_refs[r] # "unmade"
         /\ cf_guard' = cf_guard_add(cf_guard, ref)
         /\ cf_refs' = IF ref # 0 THEN [cf_refs EXCEPT ![ref] = "held"]
                       ELSE cf_refs
    /\ UNCHANGED <<guardFrame, cf_last, hsm_guard, tpm_handles, hsm_last>>

CfGuardRelease ==
    /\ backend = "darwin"
    /\ LET r == cf_guard_release(cf_guard) IN
         /\ cf_guard' = r.guard
         /\ cf_last' = r.released
         /\ cf_refs' = ReleaseAll(cf_refs, r.released)
    /\ UNCHANGED <<guardFrame, hsm_guard, tpm_handles, hsm_last>>

(* cleanup.x.handle = the handle a TPM call returned;                      *)
(* cleanup.x.ctx = g_esys_ctx; on a guard that holds nothing               *)
HsmGuardTake ==
    /\ backend = "linux"
    /\ hsm_guard.handle = ESYS_TR_NONE
    /\ \E h \in Handles :
         /\ tpm_handles[h] = "unmade"
         /\ hsm_guard' = [handle |-> h, ctx |-> TRUE]
         /\ tpm_handles' = [tpm_handles EXCEPT ![h] = "held"]
    /\ UNCHANGED <<guardFrame, cf_guard, cf_refs, cf_last, hsm_last>>

HsmGuardRelease ==
    /\ backend = "linux"
    /\ LET r == hsm_guard_release(hsm_guard) IN
         /\ hsm_guard' = r.guard
         /\ hsm_last' = r.flushed
         /\ tpm_handles' = ReleaseAll(tpm_handles, r.flushed)
    /\ UNCHANGED <<guardFrame, cf_guard, cf_refs, cf_last>>

(* ======================= detection ======================= *)

(* c_src/hsm.c hsm_detect_available ("detect") and hsm_available of the    *)
(* pinentry build ("available")                                            *)
DetectApis == {"detect", "available"}

(* ran: the call ran the probes itself; tpm, se, store: what they told it *)
NoDetect == [pc |-> "idle", api |-> "none", ret |-> HSM_TYPE_NONE,
             after |-> {}, ran |-> FALSE, tpm |-> FALSE, se |-> FALSE,
             store |-> FALSE]

(* the kind the preference order tpm, secure element, credential store,    *)
(* none selects for the answers of the probes                              *)
Preferred(tpm, se, store) ==
    IF tpm THEN HSM_TYPE_TPM
    ELSE IF se THEN HSM_TYPE_SECURE_ENCLAVE
    ELSE IF store THEN HSM_TYPE_KEYCHAIN
    ELSE HSM_TYPE_NONE

(* tpm_is_available: the device node can be opened *)
tpm_is_available == backend = "linux" /\ hw

(* se_is_available, se_available: the Secure Enclave can make a key *)
se_is_available == backend = "darwin" /\ seAvail

(* keychain_is_darwin: the build is the one for macOS *)
keychain_is_darwin == backend = "darwin"

detFrame == <<backend, seAvail, idSet, pinSet, maskSet, th, started, stubVars,
              linuxVars, darwinVars, last, gPin, failures, guardVars,
              keychain, traced, sf>>

(* the TPM device appears or goes away *)
HardwareChange ==
    /\ backend = "linux"
    /\ hw' = ~hw
    /\ UNCHANGED <<detFrame, s_detection_done, s_detected_type, det, returned>>

(* a call returns: the kinds returned so far are those of the calls that   *)
(* had returned before, and this one                                       *)
DetectReturn(t, kind) ==
    /\ det' = [det EXCEPT ![t].pc = "done", ![t].ret = kind]
    /\ returned' = [returned EXCEPT ![det[t].api] = @ \cup {kind}]

(* a thread calls hsm_detect_available; after is what calls that have      *)
(* returned before this one starts have returned                           *)
DetectCall(t) ==
    /\ det[t].pc \in {"idle", "done"}
    /\ det' = [det EXCEPT ![t] = [NoDetect EXCEPT
                                    !.pc = "check", !.api = "detect",
                                    !.after = returned["detect"]]]
    /\ UNCHANGED <<detFrame, hw, s_detection_done, s_detected_type, returned>>

(* if (s_detection_done) return s_detected_type; *)
DetectCheck(t) ==
    /\ det[t].pc = "check"
    /\ IF s_detection_done THEN DetectReturn(t, s_detected_type)
       ELSE /\ det' = [det EXCEPT ![t].pc = "reset"]
            /\ UNCHANGED returned
    /\ UNCHANGED <<detFrame, hw, s_detection_done, s_detected_type>>

(* s_detected_type = HSM_TYPE_NONE; *)
DetectReset(t) ==
    /\ det[t].pc = "reset"
    /\ s_detected_type' = HSM_TYPE_NONE
    /\ det' = [det EXCEPT ![t].pc = "probe"]
    /\ UNCHANGED <<detFrame, hw, s_detection_done, returned>>

(* the probes of the platform the library is built for, and the            *)
(* assignment to s_detected_type of the first that answers yes             *)
DetectProbe(t) ==
    /\ det[t].pc = "probe"
    /\ s_detected_type' =
         CASE tpm_is_available -> HSM_TYPE_TPM
           [] se_is_available -> HSM_TYPE_SECURE_ENCLAVE
           [] keychain_is_darwin /\ ~se_is_available -> HSM_TYPE_KEYCHAIN
           [] OTHER -> s_detected_type
    /\ det' = [det EXCEPT ![t].pc = "mark", ![t].ran = TRUE,
                          ![t].tpm = tpm_is_available,
                          ![t].se = se_is_available,
                          ![t].store = keychain_is_darwin]
    /\ UNCHANGED <<detFrame, hw, s_detection_done, returned>>

(* s_detection_done = 1; *)
DetectMark(t) ==
    /\ det[t].pc = "mark"
    /\ s_detection_done' = TRUE
    /\ det' = [det EXCEPT ![t].pc = "return"]
    /\ UNCHANGED <<detFrame, hw, s_detected_type, returned>>

(* return s_detected_type; *)
DetectLeave(t) ==
    /\ det[t].pc = "return"
    /\ DetectReturn(t, s_detected_type)
    /\ UNCHANGED <<detFrame, hw, s_detection_done, s_detected_type>>

(* a thread calls hsm_available, which keeps nothing between calls *)
HsmAvailable(t) ==
    /\ det[t].pc \in {"idle", "done"}
    /\ det' = [det EXCEPT ![t] = [pc |-> "done", api |-> "available",
                                  ret |-> hsm_available,
                                  after |-> returned["available"],
                                  ran |-> TRUE, tpm |-> tpm_is_available,
                                  se |-> se_is_available,
                                  store |-> backend # "linux"]]
    /\ returned' = [returned EXCEPT !["available"] = @ \cup {hsm_available}]
    /\ UNCHANGED <<detFrame, hw, s_detection_done, s_detected_type>>

(* ======================= hsm_error_message ======================= *)

(* the designated initializers of the three tables *)
error_messages ==
    (HSM_SUCCESS :> "Success"
     @@ HSM_ERR_NOT_AVAILABLE :> "HSM hardware not available"
     @@ HSM_ERR_NOT_INITIALIZED :> "HSM not initialized"
     @@ HSM_ERR_INVALID_IDENTITY :> "Invalid identity name"
     @@ HSM_ERR_SEAL_FAILED :> "Failed to seal PIN"
     @@ HSM_ERR_UNSEAL_FAILED :> "Failed to unseal PIN"
     @@ HSM_ERR_NOT_FOUND :> "No PIN stored for identity"
     @@ HSM_ERR_AUTH_FAILED :> "Authentication failed"
     @@ HSM_ERR_PCR_MISMATCH :> "Platform state changed"
     @@ HSM_ERR_MEMORY :> "Memory allocation failed"
     @@ HSM_ERR_IO :> "I/O error"
     @@ HSM_ERR_PERMISSION :> "Permission denied"
     @@ HSM_ERR_TIMEOUT :> "Operation timed out"
     @@ HSM_ERR_CANCELLED :> "Operation cancelled"
     @@ HSM_ERR_INTERNAL :> "Internal error")

linux_messages ==
    (HSM_SUCCESS :> "Success"
     @@ HSM_ERR_NOT_AVAILABLE :> "TPM 2.0 hardware not available"
     @@ HSM_ERR_NOT_INITIALIZED :> "TPM not initialized"
     @@ HSM_ERR_INVALID_IDENTITY :> "Invalid identity name"
     @@ HSM_ERR_SEAL_FAILED :> "Failed to seal PIN with TPM"
     @@ HSM_ERR_UNSEAL_FAILED :> "Failed to unseal PIN from TPM"
     @@ HSM_ERR_NOT_FOUND :> "No PIN stored for identity"
     @@ HSM_ERR_AUTH_FAILED :> "TPM authentication failed"
     @@ HSM_ERR_PCR_MISMATCH
          :> "Platform boot state changed since PIN was sealed"
     @@ HSM_ERR_MEMORY :> "Memory allocation failed"
     @@ HSM_ERR_IO :> "I/O error"
     @@ HSM_ERR_PERMISSION :> "Permission denied (check TPM access)"
     @@ HSM_ERR_TIMEOUT :> "TPM operation timed out"
     @@ HSM_ERR_CANCELLED :> "Operation cancelled"
     @@ HSM_ERR_INTERNAL :> "Internal error")

darwin_messages ==
    (HSM_SUCCESS :> "Success"
     @@ HSM_ERR_NOT_AVAILABLE :> "HSM hardware not available"
     @@ HSM_ERR_NOT_INITIALIZED :> "HSM not initialized"
     @@ HSM_ERR_INVALID_IDENTITY :> "Invalid identity name"
     @@ HSM_ERR_SEAL_FAILED :> "Failed to seal PIN with Secure Enclave"
     @@ HSM_ERR_UNSEAL_FAILED :> "Failed to unseal PIN with Secure Enclave"
     @@ HSM_ERR_NOT_FOUND :> "No PIN stored for identity"
     @@ HSM_ERR_AUTH_FAILED :> "Authentication failed (Touch ID required?)"
     @@ HSM_ERR_PCR_MISMATCH :> "N/A for Secure Enclave"
     @@ HSM_ERR_MEMORY :> "Memory allocation failed"
     @@ HSM_ERR_IO :> "Keychain I/O error"
     @@ HSM_ERR_PERMISSION :> "Permission denied"
     @@ HSM_ERR_TIMEOUT :> "Operation timed out"
     @@ HSM_ERR_CANCELLED :> "Operation cancelled by user"
     @@ HSM_ERR_INTERNAL :> "Internal error")

(* the array the initializers make: as long as the greatest index needs,   *)
(* with NULL in every element that has no initializer                      *)
MessageArray(table) ==
    [k \in 0..Max(DOMAIN table) |->
       IF k \in DOMAIN table THEN Msg(table[k]) ELSE NullMsg]

(* if (error >= 0 && error < sizeof(messages) / sizeof(messages[0]))       *)
(*     return messages[error];                                             *)
(* return "Unknown error";                                                 *)
hsm_error_message(error) ==
    LET messages == MessageArray(CASE backend = "stub" -> error_messages
                                   [] backend = "linux" -> linux_messages
                                   [] backend = "darwin" -> darwin_messages)
    IN IF error >= 0 /\ error <= Max(DOMAIN messages)
       THEN messages[error] ELSE Msg("Unknown error")

(* the values the argument is tried with: every value from -1 to one past  *)
(* the greatest code, and a value far outside                              *)
ErrorArgs == (-1 .. HSM_ERR_INTERNAL + 1) \cup {999}

HsmErrorMessage ==
    /\ \E error \in ErrorArgs :
         last' = [Obs("error_message", NullPtr, NullPtr, error, 0, 0, Absent,
                      TRUE, FALSE, {})
                  EXCEPT !.msg = hsm_error_message(error)]
    /\ UNCHANGED <<build, stubVars, linuxVars, darwinVars, gPin, failures>>

(* ======================= hsm_list_identities ======================= *)


(* the lines fgets(line, n, p) hands out for the bytes of a stream: each   *)
(* call takes the bytes through the first newline, and at most n - 1       *)
RECURSIVE Fgets(_, _)
Fgets(stream, n) ==
    IF Len(stream) = 0 THEN <<>>
    ELSE LET nl == {k \in 1..Len(stream) : stream[k] = 10}
             cut == IF nl # {} THEN Min(nl) ELSE Len(stream)
             m == IF cut <= n - 1 THEN cut ELSE n - 1
         IN <<SubSeq(stream, 1, m)>>
              \o Fgets(SubSeq(stream, m + 1, Len(stream)), n)

(* if (len > 0 && line[len-1] == '\n') line[len-1] = '\0'; *)
StripNewline(line) ==
    IF Len(line) > 0 /\ line[Len(line)] = 10
    THEN SubSeq(line, 1, Len(line) - 1) ELSE line

(* what ls -1 <dir>/*<ext> | xargs -I{} basename {} <ext> writes for the   *)
(* files of the names in S, one line per file, in one order; the names of  *)
(* the listing specification hold no quote, backslash or newline           *)
RECURSIVE LsBasename(_)
LsBasename(S) ==
    IF S = {} THEN <<>>
    ELSE LET i == CHOOSE x \in S : TRUE
         IN i \o <<10>> \o LsBasename(S \ {i})

NoList == [names |-> <<>>, count |-> 0]

(* the loop of the stub and of the TPM implementation: every line fgets    *)
(* hands out becomes an entry *)
ReadLines(stream, n) ==
    LET lines == Fgets(stream, n)
    IN [names |-> [k \in DOMAIN lines |-> StripNewline(lines[k])],
        count |-> Len(lines)]

ListFaults == {"none", "popen", "alloc"}

(* hsm_stub.c: NULL when count is NULL, when popen fails and when realloc  *)
(* or strdup fails; the pattern *.pin does not match the file ".pin"       *)
stub_list(hasCount, fault) ==
    IF ~hasCount \/ fault # "none" THEN NoList
    ELSE ReadLines(LsBasename({i \in Keys : /\ files[i] # Absent
                                            /\ i # IdEmpty}),
                   STUB_MAX_IDENTITY_LEN + 1)

(* hsm_linux.c: the same with *.tpm2 and char line[128] *)
linux_list(hasCount, fault) ==
    IF ~hasCount \/ fault # "none" THEN NoList
    ELSE ReadLines(LsBasename({i \in Keys : /\ blobs[i].st # "absent"
                                            /\ i # IdEmpty}),
                   LINUX_LINE_LEN)

DarwinListFaults == {"none", "query", "alloc"}

RECURSIVE SetToSeq(_)
SetToSeq(S) ==
    IF S = {} THEN <<>>
    ELSE LET i == CHOOSE x \in S : TRUE IN <<i>> \o SetToSeq(S \ {i})

(* hsm_darwin.c: the generic password items whose service starts with      *)
(* SERVICE_PREFIX, each named by the rest of its service; NULL when the    *)
(* query or an allocation fails and when nothing matches; *count is        *)
(* written only when count is not NULL                                     *)
darwin_list(hasCount, fault) ==
    IF fault # "none" THEN NoList
    ELSE LET found == SetToSeq({i \in Keys : items[i] # Absent})
         IN [names |-> found, count |-> IF hasCount THEN Len(found) ELSE 0]

ListObs(r, hasCount, fault) ==
    [Obs("list", NullPtr, NullPtr, 0, 0, 0, Absent, fault = "none", FALSE,
         {})
     EXCEPT !.names = r.names, !.count = r.count, !.had = hasCount]

StubListIdentities ==
    /\ backend = "stub"
    /\ \E hasCount \in BOOLEAN, fault \in Allowed(ListFaults, "none") :
         /\ last' = ListObs(stub_list(hasCount, fault), hasCount, fault)
         /\ Failure(last'.envOk)
    /\ UNCHANGED <<build, stubVars, linuxVars, darwinVars, gPin>>

LinuxListIdentities ==
    /\ backend = "linux"
    /\ \E hasCount \in BOOLEAN, fault \in Allowed(ListFaults, "none") :
         /\ last' = ListObs(linux_list(hasCount, fault), hasCount, fault)
         /\ Failure(last'.envOk)
    /\ UNCHANGED <<build, stubVars, linuxVars, darwinVars, gPin>>

DarwinListIdentities ==
    /\ backend = "darwin"
    /\ \E hasCount \in BOOLEAN,
          fault \in Allowed(DarwinListFaults, "none") :
         /\ last' = ListObs(darwin_list(hasCount, fault), hasCount, fault)
         /\ Failure(last'.envOk)
    /\ UNCHANGED <<build, stubVars, linuxVars, darwinVars, gPin>>

(* ================= hsm_linux.c, the sealed file ================= *)

(* sizeof(TPM2B_PUBLIC) and sizeof(TPM2B_PRIVATE), scaled down: a uint16_t *)
(* size and the bytes after it                                             *)
SizeofPublic == 3
SizeofPrivate == 4

(* a uint16_t as the two bytes it has in memory, and back *)
U16Bytes(n) == <<n % 256, (n \div 256) % 256>>
U16(lo, hi) == lo + 256 * hi

SeqsUpTo(S, n) == UNION {[1 .. k -> S] : k \in 0 .. n}

(* a TPM2B structure whose first size bytes are in use *)
Tpm2b(buffer) == [size |-> Len(buffer), buffer |-> buffer]
NoTpm2b == [size |-> 0, buffer |-> Absent]

(* the bytes of the structure in memory, from its start *)
StructBytes(b) == U16Bytes(b.size) \o b.buffer

(* the structure a run of bytes in memory is *)
StructOf(bytes) ==
    IF Len(bytes) < 2 THEN NoTpm2b
    ELSE [size |-> U16(bytes[1], bytes[2]),
          buffer |-> SubSeq(bytes, 3, Len(bytes))]

(* what Esys_Create can return *)
PublicObjects == {Tpm2b(b) : b \in SeqsUpTo({5, 6}, SizeofPublic - 2)}
PrivateObjects == {Tpm2b(b) : b \in SeqsUpTo({8, 9}, SizeofPrivate - 2)}

(* hsm_seal_pin, the four fwrite: the size, then size + sizeof(uint16_t)   *)
(* bytes from the start of the structure, for each of the two              *)
sealed_file(out_public, out_private) ==
    U16Bytes(out_public.size)
    \o Take(StructBytes(out_public), out_public.size + 2)
    \o U16Bytes(out_private.size)
    \o Take(StructBytes(out_private), out_private.size + 2)

(* fread(&size, sizeof(uint16_t), 1, f) and fread(&structure, size +       *)
(* sizeof(uint16_t), 1, f) on what is left of the file: whether both       *)
(* returned 1, the bytes stored into the structure (a short file still     *)
(* gives the bytes it has), and what is left after them                    *)
read_blob(stream) ==
    IF Len(stream) < 2
    THEN [ok |-> FALSE, stored |-> <<>>, rest |-> <<>>]
    ELSE LET size == U16(stream[1], stream[2])
             rest == SubSeq(stream, 3, Len(stream))
             n == size + 2
         IN [ok |-> Len(rest) >= n,
             stored |-> Take(rest, n),
             rest |-> SubSeq(rest, Min({n, Len(rest)}) + 1, Len(rest))]

(* hsm_unseal_pin, the reads of the file: the public blob, then the        *)
(* private one unless the first read failed.  overrun: more bytes were     *)
(* stored into a structure than it has                                     *)
read_sealed(file) ==
    LET pub == read_blob(file)
        priv == read_blob(pub.rest)
    IN
    IF ~pub.ok
    THEN [ok |-> FALSE, in_public |-> NoTpm2b, in_private |-> NoTpm2b,
          overrun |-> Len(pub.stored) > SizeofPublic]
    ELSE IF ~priv.ok
    THEN [ok |-> FALSE, in_public |-> StructOf(pub.stored),
          in_private |-> NoTpm2b,
          overrun |-> \/ Len(pub.stored) > SizeofPublic
                      \/ Len(priv.stored) > SizeofPrivate]
    ELSE [ok |-> TRUE, in_public |-> StructOf(pub.stored),
          in_private |-> StructOf(priv.stored),
          overrun |-> \/ Len(pub.stored) > SizeofPublic
                      \/ Len(priv.stored) > SizeofPrivate]

(* how hsm_unseal_pin goes on after the reads: HSM_ERR_IO, or the TPM      *)
(* commands.  Bytes stored past the end of a structure on the stack leave  *)
(* the call undefined: it may do either, or crash                          *)
AfterRead(r) ==
    IF r.overrun THEN {"io", "tpm", "crash"}
    ELSE IF r.ok THEN {"tpm"} ELSE {"io"}

NoSealedFile ==
    [bytes |-> Absent, out_public |-> NoTpm2b, out_private |-> NoTpm2b,
     op |-> "none", in_public |-> NoTpm2b, in_private |-> NoTpm2b,
     overrun |-> FALSE, next |-> "none"]

(* the files hsm_unseal_pin is tried on besides those hsm_seal_pin wrote *)
MaxFileLen == 8
FileBytes == {0, 2}
AnyFiles == SeqsUpTo(FileBytes, MaxFileLen)

sfFrame ==
    <<backend, seAvail, idSet, pinSet, maskSet,
      th, started, detVars, guardVars,
      keychain, traced, stubVars, linuxVars, darwinVars, last, gPin,
      failures>>

(* hsm_seal_pin from Esys_Create to fclose *)
SealWriteFile ==
    /\ \E out_public \in PublicObjects, out_private \in PrivateObjects :
         sf' = [NoSealedFile EXCEPT
                  !.bytes = sealed_file(out_public, out_private),
                  !.out_public = out_public,
                  !.out_private = out_private,
                  !.op = "write"]
    /\ UNCHANGED sfFrame

(* hsm_unseal_pin from fopen to fclose *)
UnsealReadFile ==
    /\ sf.bytes # Absent
    /\ LET r == read_sealed(sf.bytes) IN
       \E next \in AfterRead(r) :
         sf' = [sf EXCEPT !.op = "read", !.in_public = r.in_public,
                          !.in_private = r.in_private,
                          !.overrun = r.overrun, !.next = next]
    /\ UNCHANGED sfFrame

(* ======================= c_src/hsm.c, keychain ======================= *)

(* HSMStatus of c_src/hsm.h, whose values are not those of hsm_error_t *)
HSMStatus_SUCCESS == 0
HSMStatus_ERR_NOT_AVAILABLE == -1
HSMStatus_ERR_SEAL_FAILED == -2
HSMStatus_ERR_UNSEAL_FAILED == -3
HSMStatus_ERR_KEY_NOT_FOUND == -4
HSMStatus_ERR_AUTH_FAILED == -5
HSMStatus_ERR_INVALID_PARAM == -6
HSMStatus_ERR_MEMORY == -7
HSMStatus_ERR_IO == -11
HSMStatus_ERR_INTERNAL == -12

(* OSStatus *)
errSecSuccess == 0
errSecAllocate == -108
errSecAuthFailed == -25293
errSecItemNotFound == -25300
errSecInteractionNotAllowed == -25308

(* what a failing call of the Keychain Services returns *)
KeychainFailures == {errSecAuthFailed, errSecInteractionNotAllowed}

KFault(at, status) == [at |-> at, status |-> status]
NoKFault == KFault("none", errSecSuccess)
KeychainFaults ==
    {KFault("malloc", errSecSuccess)}
    \cup {KFault("keychain", st) : st \in KeychainFailures}

(* hsm_detect_available called by one caller: the kind it returns *)
hsm_detect_available ==
    IF s_detection_done THEN s_detected_type
    ELSE Preferred(tpm_is_available, se_is_available, keychain_is_darwin)

(* keychain_store: the item is added, or found and given the new data *)
keychain_store(identity, pin, fault) ==
    IF fault.at = "keychain"
    THEN [status |-> fault.status, keychain |-> keychain]
    ELSE [status |-> errSecSuccess,
          keychain |-> [keychain EXCEPT ![identity] = pin]]

(* keychain_retrieve: the data of the item, copied *)
keychain_retrieve(identity, fault) ==
    IF fault.at = "keychain"
    THEN [status |-> fault.status, data |-> Absent]
    ELSE IF keychain[identity] = Absent
    THEN [status |-> errSecItemNotFound, data |-> Absent]
    ELSE [status |-> errSecSuccess, data |-> keychain[identity]]

(* keychain_delete: the item is found and deleted *)
keychain_delete(identity, fault) ==
    IF fault.at = "keychain"
    THEN [status |-> fault.status, keychain |-> keychain]
    ELSE IF keychain[identity] = Absent
    THEN [status |-> errSecItemNotFound, keychain |-> keychain]
    ELSE [status |-> errSecSuccess,
          keychain |-> [keychain EXCEPT ![identity] = Absent]]

(* hsm_store_pin, cases HSM_TYPE_KEYCHAIN and HSM_TYPE_NONE *)
hsm_store_pin(identity, pin, fault) ==
    LET same(ret) == [ret |-> ret, kc |-> errSecSuccess,
                      keychain |-> keychain]
    IN
    IF validate_identity(identity) = 0 THEN same(HSMStatus_ERR_INVALID_PARAM)
    ELSE IF pin = NullPtr \/ Len(pin) = 0
    THEN same(HSMStatus_ERR_INVALID_PARAM)
    ELSE IF hsm_detect_available # HSM_TYPE_KEYCHAIN
    THEN same(HSMStatus_ERR_NOT_AVAILABLE)
    ELSE IF fault.at = "malloc" THEN same(HSMStatus_ERR_MEMORY)
    ELSE LET r == keychain_store(identity, pin, fault) IN
         [ret |-> IF r.status = 0 THEN HSMStatus_SUCCESS
                  ELSE HSMStatus_ERR_SEAL_FAILED,
          kc |-> r.status, keychain |-> r.keychain]

(* hsm_retrieve_pin, the same cases *)
hsm_retrieve_pin(identity, hasOut, fault) ==
    LET same(ret) == [ret |-> ret, kc |-> errSecSuccess, data |-> Absent]
    IN
    IF validate_identity(identity) = 0 THEN same(HSMStatus_ERR_INVALID_PARAM)
    ELSE IF ~hasOut THEN same(HSMStatus_ERR_INVALID_PARAM)
    ELSE IF hsm_detect_available # HSM_TYPE_KEYCHAIN
    THEN same(HSMStatus_ERR_NOT_AVAILABLE)
    ELSE IF fault.at = "malloc" THEN same(HSMStatus_ERR_MEMORY)
    ELSE LET r == keychain_retrieve(identity, fault) IN
         [ret |-> IF r.status = 0 THEN HSMStatus_SUCCESS
                  ELSE IF r.status = -25300
                  THEN HSMStatus_ERR_KEY_NOT_FOUND
                  ELSE IF r.status = -25293 THEN HSMStatus_ERR_AUTH_FAILED
                  ELSE HSMStatus_ERR_UNSEAL_FAILED,
          kc |-> r.status, data |-> r.data]

(* hsm_clear_pin, the same cases *)
hsm_clear_pin(identity, fault) ==
    LET same(ret) == [ret |-> ret, kc |-> errSecSuccess,
                      keychain |-> keychain]
    IN
    IF validate_identity(identity) = 0 THEN same(HSMStatus_ERR_INVALID_PARAM)
    ELSE IF hsm_detect_available # HSM_TYPE_KEYCHAIN
    THEN same(HSMStatus_ERR_NOT_AVAILABLE)
    ELSE IF fault.at = "malloc" THEN same(HSMStatus_ERR_MEMORY)
    ELSE LET r == keychain_delete(identity, fault) IN
         [ret |-> IF r.status = 0 THEN HSMStatus_SUCCESS
                  ELSE IF r.status = -25300
                  THEN HSMStatus_ERR_KEY_NOT_FOUND
                  ELSE HSMStatus_ERR_IO,
          kc |-> r.status, keychain |-> r.keychain]

(* the library of c_src is built without TPM and Secure Enclave support,   *)
(* or the probe of the hardware it is built for fails: the calls go to the *)
(* keychain on macOS and to nothing elsewhere                              *)
KeychainBuild == hsm_detect_available \in {HSM_TYPE_KEYCHAIN, HSM_TYPE_NONE}

storeFrame == <<backend, seAvail, idSet, pinSet, maskSet, th, started, hw, det,
                returned, guardVars, stubVars, linuxVars, darwinVars, gPin,
                traced, sf>>

(* every call runs hsm_detect_available first *)
Detected ==
    /\ s_detected_type' = hsm_detect_available
    /\ s_detection_done' = TRUE

HsmStorePin ==
    /\ KeychainBuild
    /\ \E identity \in idSet, pin \in pinSet,
          fault \in Allowed({NoKFault} \cup KeychainFaults, NoKFault) :
         LET r == hsm_store_pin(identity, pin, fault) IN
         /\ keychain' = r.keychain
         /\ last' = [Obs("store", identity, pin, r.ret, 0, 0, Absent,
                         r = hsm_store_pin(identity, pin, NoKFault), FALSE,
                         {})
                     EXCEPT !.kc = r.kc]
         /\ Failure(last'.envOk)
    /\ Detected
    /\ UNCHANGED storeFrame

HsmRetrievePin ==
    /\ KeychainBuild
    /\ \E identity \in idSet, hasOut \in BOOLEAN,
          fault \in Allowed({NoKFault} \cup KeychainFaults
                             \cup {KFault("keychain", errSecAllocate)},
                            NoKFault) :
         LET r == hsm_retrieve_pin(identity, hasOut, fault) IN
         /\ last' = [Obs("retrieve", identity, NullPtr, r.ret, 0, 0, r.data,
                         r = hsm_retrieve_pin(identity, hasOut, NoKFault),
                         FALSE, {})
                     EXCEPT !.kc = r.kc]
         /\ Failure(last'.envOk)
    /\ Detected
    /\ UNCHANGED <<storeFrame, keychain>>

HsmClearPin ==
    /\ KeychainBuild
    /\ \E identity \in idSet,
          fault \in Allowed({NoKFault} \cup KeychainFaults, NoKFault) :
         LET r == hsm_clear_pin(identity, fault) IN
         /\ keychain' = r.keychain
         /\ last' = [Obs("delete", identity, NullPtr, r.ret, 0, 0, Absent,
                         r = hsm_clear_pin(identity, NoKFault), FALSE, {})
                     EXCEPT !.kc = r.kc]
         /\ Failure(last'.envOk)
    /\ Detected
    /\ UNCHANGED storeFrame

(* ======================= the API of the build ======================= *)

hsm_pin_exists(identity) ==
    CASE backend = "stub" -> stub_pin_exists(identity)
      [] backend = "linux" -> linux_pin_exists(identity)
      [] backend = "darwin" -> darwin_pin_exists(identity)

(* hsm_list_identities(&count) when nothing outside fails *)
hsm_list_identities ==
    CASE backend = "stub" -> stub_list(TRUE, "none")
      [] backend = "linux" -> linux_list(TRUE, "none")
      [] backend = "darwin" -> darwin_list(TRUE, "none")

(* what outlives the process: files, items and keys *)
Persistent == <<dirExists, files, blobs, items, seKeys, keyMatch>>

(* ======================= specifications ======================= *)

MainIds == {IdA, IdB}
MainPins == {PinOne, PinBin}

EdgeNames ==
    {IdA, IdDot, IdSlash, IdBackslash, IdCtrl, IdHigh, IdEmpty, Id64, Id65,
     NullPtr}
EdgePins == {PinEmpty, PinOne, Pin128, Pin129, Pin256, Pin257, NullPtr}

(* nothing stored, no call made, but for the sealed file *)
InitState ==
    /\ hw = TRUE
    /\ dirExists = FALSE
    /\ files = [i \in Keys |-> Absent]
    /\ last = NoObs
    /\ gPin = [i \in Keys |-> Absent]
    /\ failures = 0
    /\ th = [t \in Threads |-> Idle]
    /\ started = [i \in Keys |-> {}]
    /\ s_detection_done = FALSE
    /\ s_detected_type = HSM_TYPE_NONE
    /\ det = [t \in Threads |-> NoDetect]
    /\ returned = [api \in DetectApis |-> {}]
    /\ g_initialized = FALSE
    /\ g_esys_ctx = FALSE
    /\ g_pcr_mask = DEFAULT_PCR_MASK
    /\ pcr = [p \in Pcrs |-> 0]
    /\ blobs = [i \in Keys |-> NoBlob]
    /\ g_require_biometric = FALSE
    /\ items = [i \in Keys |-> Absent]
    /\ seKeys = [i \in Keys |-> "none"]
    /\ keyMatch = [i \in Keys |-> FALSE]
    /\ keychain = [i \in Keys |-> Absent]
    /\ cf_guard = CF_GUARD_INIT
    /\ cf_refs = [r \in Refs |-> "unmade"]
    /\ cf_last = <<>>
    /\ hsm_guard = HSM_GUARD_INIT
    /\ tpm_handles = [h \in Handles |-> "unmade"]
    /\ hsm_last = <<>>

InitStore ==
    /\ InitState
    /\ sf = NoSealedFile

InitBuild ==
    /\ backend \in {"stub", "linux", "darwin"}
    /\ seAvail \in (IF backend = "darwin" THEN BOOLEAN ELSE {FALSE})
    /\ traced = FALSE

(* two identities and two PINs, every sequence of calls *)
Init ==
    /\ InitBuild
    /\ idSet = MainIds
    /\ pinSet = MainPins
    /\ maskSet = PcrMasks
    /\ InitStore

Calls ==
    \/ StubSealPin
    \/ StubUnsealPin
    \/ StubPinExists
    \/ StubClearPin
    \/ StubClearAll
    \/ LinuxSealPin
    \/ LinuxUnsealPin
    \/ LinuxPinExists
    \/ LinuxClearPin
    \/ LinuxClearAll
    \/ LinuxSetPcrBinding
    \/ DarwinSealPin
    \/ DarwinUnsealPin
    \/ DarwinPinExists
    \/ DarwinClearPin
    \/ DarwinClearAll

Next == Calls

Spec == Init /\ [][Next]_vars

(* one identity and one PIN per behaviour, one of the two at the edge of   *)
(* what the API takes                                                      *)
InitEdge ==
    /\ InitBuild
    /\ \E name \in EdgeNames, pin \in EdgePins :
         /\ name = IdA \/ pin = PinOne
         /\ idSet = {name}
         /\ pinSet = {pin}
         /\ maskSet = PcrMasks
    /\ InitStore

NextEdge ==
    \/ Calls
    \/ ValidateIdentity

SpecEdge == InitEdge /\ [][NextEdge]_vars

(* two threads, each call a sequence of steps that interleave with the     *)
(* steps of the other thread's call                                        *)
InitConc ==
    /\ InitBuild
    /\ idSet = MainIds
    /\ pinSet = MainPins
    /\ maskSet = PcrMasks
    /\ InitStore

NextConc ==
    \E t \in Threads :
      \/ ConcBegin(t)
      \/ StubSealMkdir(t)
      \/ StubSealOpen(t)
      \/ StubSealClose(t)
      \/ StubUnsealOpen(t)
      \/ StubUnsealRead(t)
      \/ LinuxConcInit(t)
      \/ LinuxTpmEnter(t)
      \/ LinuxSealTpmLeave(t)
      \/ LinuxSealOpen(t)
      \/ LinuxSealClose(t)
      \/ LinuxUnsealOpen(t)
      \/ LinuxUnsealRead(t)
      \/ LinuxUnsealTpmLeave(t)
      \/ DarwinSealEncrypt(t)
      \/ DarwinSealDelete(t)
      \/ DarwinSealAdd(t)
      \/ DarwinUnsealRetrieve(t)
      \/ DarwinUnsealDecrypt(t)

SpecConc == InitConc /\ [][NextConc]_vars


(* detection calls from two threads while the hardware comes and goes *)
NextDetect ==
    \/ HardwareChange
    \/ \E t \in Threads :
         \/ DetectCall(t)
         \/ DetectCheck(t)
         \/ DetectReset(t)
         \/ DetectProbe(t)
         \/ DetectMark(t)
         \/ DetectLeave(t)
         \/ HsmAvailable(t)

SpecDetect == InitConc /\ [][NextDetect]_vars

(* the calls that set the library up, among the others: one identity and   *)
(* one PIN                                                                 *)
InitSetup ==
    /\ InitBuild
    /\ idSet = {IdA}
    /\ pinSet = {PinOne}
    /\ maskSet = PcrMasks
    /\ InitStore

NextSetup ==
    \/ Calls
    \/ StubInitialize
    \/ StubSetPcrBinding
    \/ StubSetBiometric
    \/ LinuxInitialize
    \/ LinuxSetBiometric
    \/ DarwinInitialize
    \/ DarwinSetPcrBinding
    \/ DarwinSetBiometric

SpecSetup == InitSetup /\ [][NextSetup]_vars

(* the calls and hsm_list_identities, for two names that the naming rule   *)
(* allows, one of them of the greatest length                              *)
InitList ==
    /\ InitBuild
    /\ idSet = {IdA, Id64}
    /\ pinSet = {PinOne}
    /\ maskSet = PcrMasks
    /\ InitStore

NextList ==
    \/ Calls
    \/ StubListIdentities
    \/ LinuxListIdentities
    \/ DarwinListIdentities

SpecList == InitList /\ [][NextList]_vars

(* the guards alone: objects are made and recorded, the guard is released *)
(* any number of times                                                     *)
NextGuard ==
    \/ CfGuardAdd
    \/ CfGuardRelease
    \/ HsmGuardTake
    \/ HsmGuardRelease

SpecGuard == InitSetup /\ [][NextGuard]_vars

(* the calls of c_src/hsm.c that go to the keychain, for two names it      *)
(* accepts and one it rejects                                              *)
InitStorePin ==
    /\ InitBuild
    /\ idSet = {IdA, IdB, IdSlash}
    /\ pinSet = {PinOne, PinBin, PinEmpty}
    /\ maskSet = PcrMasks
    /\ InitStore

NextStorePin ==
    \/ HsmStorePin
    \/ HsmRetrievePin
    \/ HsmClearPin

SpecStorePin == InitStorePin /\ [][NextStorePin]_vars

(* the calls for one name and one PIN, those of hsm_linux.c followed       *)
(* through their calls of the TSS                                          *)
InitTss ==
    /\ backend \in {"stub", "linux", "darwin"}
    /\ seAvail \in (IF backend = "darwin" THEN BOOLEAN ELSE {FALSE})
    /\ traced = TRUE
    /\ idSet = {IdA}
    /\ pinSet = {PinOne}
    /\ maskSet = PcrMasks
    /\ InitStore

NextTss == Calls

SpecTss == InitTss /\ [][NextTss]_vars

(* two threads on the file-backed fallback: seal, unseal, hsm_clear_pin    *)
(* and hsm_clear_all of one identity, step by step                         *)
InitClear ==
    /\ backend = "stub"
    /\ seAvail = FALSE
    /\ traced = FALSE
    /\ idSet = {IdA}
    /\ pinSet = MainPins
    /\ maskSet = PcrMasks
    /\ InitStore

NextClear ==
    \E t \in Threads :
      \/ ConcBegin(t)
      \/ ClearBegin(t)
      \/ StubSealMkdir(t)
      \/ StubSealOpen(t)
      \/ StubSealClose(t)
      \/ StubUnsealOpen(t)
      \/ StubUnsealRead(t)
      \/ StubClearOpen(t)
      \/ StubClearZero(t)
      \/ StubClearRemove(t)
      \/ StubClearAllRm(t)

SpecClear == InitClear /\ [][NextClear]_vars

(* the sealed file of hsm_linux.c: any file of up to MaxFileLen bytes, and *)
(* the files hsm_seal_pin writes                                           *)
InitFile ==
    /\ backend = "linux"
    /\ seAvail = FALSE
    /\ traced = FALSE
    /\ idSet = {IdA}
    /\ pinSet = {PinOne}
    /\ maskSet = PcrMasks
    /\ InitState
    /\ \E bytes \in AnyFiles \cup {Absent} :
         sf = [NoSealedFile EXCEPT !.bytes = bytes]

NextFile ==
    \/ SealWriteFile
    \/ UnsealReadFile

SpecFile == InitFile /\ [][NextFile]_vars

(* hsm_initialize of the TPM implementation entered by two threads *)
InitInitialize ==
    /\ backend = "linux"
    /\ seAvail = FALSE
    /\ traced = FALSE
    /\ idSet = {IdA}
    /\ pinSet = {PinOne}
    /\ maskSet = PcrMasks
    /\ InitStore

NextInitialize ==
    \E t \in Threads :
      \/ InitBegin(t)
      \/ LinuxInitCheck(t)
      \/ LinuxInitEsysCheck(t)
      \/ LinuxInitEsys(t)
      \/ LinuxInitMkdir(t)
      \/ LinuxInitSet(t)

SpecInitialize == InitInitialize /\ [][NextInitialize]_vars

(* hsm_error_message for every value of its argument *)
NextMsg == HsmErrorMessage

SpecMsg == InitSetup /\ [][NextMsg]_vars

(* the TPM implementation while the platform extends PCRs *)
InitPcr ==
    /\ backend = "linux"
    /\ seAvail = FALSE
    /\ traced = FALSE
    /\ idSet = {IdA}
    /\ pinSet = MainPins
    /\ maskSet = PcrMasks
    /\ InitStore

NextPcr ==
    \/ LinuxSealPin
    \/ LinuxUnsealPin
    \/ LinuxPinExists
    \/ LinuxSetPcrBinding
    \/ PcrExtend

SpecPcr == InitPcr /\ [][NextPcr]_vars

(* the same, the caller binding to masks that have a bit above 23 too *)
InitMask ==
    /\ backend = "linux"
    /\ seAvail = FALSE
    /\ traced = FALSE
    /\ idSet = {IdA}
    /\ pinSet = {PinOne}
    /\ maskSet = WideMasks
    /\ InitStore

NextMask ==
    \/ LinuxSealPin
    \/ LinuxUnsealPin
    \/ LinuxSetPcrBinding
    \/ PcrExtend

SpecMask == InitMask /\ [][NextMask]_vars

(* ======================= properties ======================= *)

(* the identity naming rule: 1 to 64 bytes, each printable ASCII, none of  *)
(* '/', '\' and '.'                                                        *)
ValidName(n) ==
    /\ n # NullPtr
    /\ Len(n) >= 1
    /\ Len(n) <= 64
    /\ \A k \in DOMAIN n :
         n[k] >= 32 /\ n[k] <= 126 /\ n[k] \notin {47, 92, 46}

(* a PIN of 1 to 256 bytes *)
ValidPin(p) == p # NullPtr /\ Len(p) >= 1 /\ Len(p) <= 256

(* a seal of a valid identity and a valid PIN in which nothing outside the *)
(* code failed                                                             *)
SealInContract(l) ==
    l.op = "seal" /\ ValidName(l.id) /\ ValidPin(l.pin) /\ l.envOk

(* an unseal of identity id with a consumer, in which nothing outside the  *)
(* code failed                                                             *)
UnsealOf(l, id) ==
    l.op = "unseal" /\ l.id = id /\ ~l.nullCb /\ l.envOk

(* C1: round trip.  A seal of a valid identity I with a PIN P of 1 to 256  *)
(* bytes returns success, and the unseal of I that follows it hands the    *)
(* consumer exactly P and returns success.                                 *)
C1_RoundTrip ==
    [][/\ SealInContract(last') => last'.ret = HSM_SUCCESS
       /\ (SealInContract(last) /\ UnsealOf(last', last.id))
            => /\ last'.cbCalls = 1
               /\ last'.got = last.pin
               /\ (last'.cbRet = 0 => last'.ret = HSM_SUCCESS)]_vars

(* C2: last write wins.  When a seal of I with P' returns success after an *)
(* earlier seal of I had returned success, the unseal of I that follows    *)
(* hands the consumer exactly P', on every backend.                        *)
C2_LastWriteWins ==
    [][(/\ last.op = "seal"
        /\ last.ret = HSM_SUCCESS
        /\ last.prior
        /\ ValidName(last.id)
        /\ UnsealOf(last', last.id))
        => /\ last'.cbCalls = 1
           /\ last'.got = last.pin]_vars

(* C3: clear.  From the moment hsm_clear_pin of an identity that had an    *)
(* artifact returns success until a seal of it returns success,            *)
(* hsm_pin_exists of it is 0 and an unseal of it returns not_found without *)
(* running the consumer.                                                   *)
C3_ClearThenAbsent ==
    /\ [](\A i \in Keys : gPin[i] = Cleared => hsm_pin_exists(i) = 0)
    /\ [][\A i \in Keys :
            (gPin[i] = Cleared /\ UnsealOf(last', i))
                => last'.ret = HSM_ERR_NOT_FOUND /\ last'.cbCalls = 0]_vars

(* C4: hsm_pin_exists(I) is 1 exactly when the most recent seal of I that  *)
(* returned success is later than the most recent clear of I or clear_all  *)
(* that returned success, and a call on another identity never changes it. *)
C4_ExistsIffSealed ==
    /\ [](\A i \in Keys : hsm_pin_exists(i) = 1 <=> Sealed(i))
    /\ [][\A i \in Keys :
            hsm_pin_exists(i)' # hsm_pin_exists(i)
                => last'.id = i \/ last'.op = "clear_all"]_vars

AllZero(bytes) == \A k \in DOMAIN bytes : bytes[k] = 0

(* C5: on every return path of hsm_unseal_pin, in every backend, each      *)
(* buffer that held the plaintext PIN holds zeros when it is released.     *)
C5_PlaintextZeroed ==
    last.op = "unseal" => \A b \in last.freed : AllZero(b.bytes)

NoConsumerCodes ==
    {HSM_ERR_INVALID_IDENTITY, HSM_ERR_NOT_FOUND, HSM_ERR_IO,
     HSM_ERR_PCR_MISMATCH, HSM_ERR_AUTH_FAILED, HSM_ERR_CANCELLED,
     HSM_ERR_UNSEAL_FAILED}

(* C6: in every hsm_unseal_pin the consumer runs at most once; it runs     *)
(* exactly once if and only if the backend produced the plaintext; it does *)
(* not run when the call returns invalid_identity, not_found, io,          *)
(* pcr_mismatch, auth_failed, cancelled or unseal_failed.                  *)
C6_ConsumerOnce ==
    last.op = "unseal"
        => /\ last.cbCalls <= 1
           /\ last.cbCalls = 1 <=> last.produced
           /\ last.ret \in NoConsumerCodes => last.cbCalls = 0

C6_Witness ==
    /\ last.op = "unseal"
    /\ last.produced
    /\ last.cbCalls = 1
    /\ last.ret = HSM_SUCCESS

Artifacts == <<files, blobs, items, seKeys, keyMatch>>

ConsumerFailed(l) == l.op = "unseal" /\ l.cbCalls = 1 /\ l.cbRet # 0

(* C7: when the consumer returns non-zero, hsm_unseal_pin returns          *)
(* internal, the artifact is as it was, hsm_pin_exists is still 1, and the *)
(* unseal that follows, with a consumer that returns 0, delivers the same  *)
(* PIN.                                                                    *)
C7_ConsumerFailureKeeps ==
    /\ [][ConsumerFailed(last')
            => /\ last'.ret = HSM_ERR_INTERNAL
               /\ UNCHANGED Artifacts
               /\ \A i \in Keys :
                    last'.id = i => hsm_pin_exists(i)' = 1]_vars
    /\ [][(ConsumerFailed(last) /\ UnsealOf(last', last.id))
            => /\ last'.cbCalls = 1
               /\ last'.got = last.got
               /\ last'.cbRet = 0 => last'.ret = HSM_SUCCESS]_vars

C7_Witness ==
    /\ ConsumerFailed(last)
    /\ last.ret = HSM_ERR_INTERNAL
    /\ hsm_pin_exists(last.id) = 1

TakesIdentity(l) == l.op \in {"seal", "unseal", "clear", "exists"}

(* C8: a seal, unseal, clear or exists of an invalid name returns          *)
(* invalid_identity (exists: does not report a PIN), reaches no backend    *)
(* and leaves the persistent state as it was.                              *)
C8_ValidationFirst ==
    [][(TakesIdentity(last') /\ ~ValidName(last'.id))
        => /\ last'.op = "exists" => last'.ret # 1
           /\ last'.op # "exists" => last'.ret = HSM_ERR_INVALID_IDENTITY
           /\ UNCHANGED <<Persistent, g_initialized, g_esys_ctx>>]_vars

(* C9: every implementation accepts a name exactly when it has 1..64 bytes *)
(* and each byte is in 0x20..0x7E and is none of '/', '\' and '.'; the     *)
(* other arguments are ones the call accepts.                              *)
C9_NameRule ==
    /\ last.op = "validate" => (last.ret = 1 <=> ValidName(last.id))
    /\ (\/ last.op = "seal" /\ last.pin = PinOne
        \/ last.op = "unseal" /\ ~last.nullCb
        \/ last.op = "clear")
         => (last.ret = HSM_ERR_INVALID_IDENTITY <=> ~ValidName(last.id))
    /\ (last.op = "exists" /\ ~ValidName(last.id)) => last.ret # 1

(* C10: hsm_seal_pin of a valid name rejects a PIN with invalid_identity   *)
(* exactly when its length is 0 or more than 256, a PIN of 256 bytes is    *)
(* sealed, and a rejected call stores nothing.                             *)
C10_PinLengthRule ==
    [][(last'.op = "seal" /\ ValidName(last'.id) /\ last'.pin # NullPtr
          /\ last'.envOk)
        => /\ last'.ret = HSM_ERR_INVALID_IDENTITY
                <=> (Len(last'.pin) = 0 \/ Len(last'.pin) > 256)
           /\ Len(last'.pin) = 256 => last'.ret = HSM_SUCCESS
           /\ last'.ret = HSM_ERR_INVALID_IDENTITY
                => UNCHANGED Persistent]_vars

(* the PIN that the artifact of identity i holds: what an unseal that runs *)
(* alone would hand to its callback; Absent when it would hand over none   *)
StoredPin(i) ==
    CASE backend = "stub" ->
           IF files[i] = Absent \/ files[i] = <<>> THEN Absent
           ELSE XorKey(Take(files[i], STUB_MAX_PIN_LEN))
      [] backend = "linux" ->
           IF blobs[i].st = "blob" THEN blobs[i].data ELSE Absent
      [] backend = "darwin" ->
           IF items[i] = Absent THEN Absent
           ELSE IF ~seAvail THEN items[i]
           ELSE IF IsEcies(items[i]) /\ keyMatch[i] THEN EciesPlain(items[i])
           ELSE Absent

(* the PINs of the seals begun on identity i *)
SealsBegun(i) == {ThreadPin(x[1]) : x \in {y \in started[i] : y[2] = "seal"}}

Quiet == \A t \in Threads : th[t].pc \in {"idle", "done"}

(* C11: an unseal of an identity that held a PIN when the unseal began,    *)
(* run while other threads seal the same identity, returns success and     *)
(* hands its callback the PIN of one of the seals; and once no call is     *)
(* running, the identity holds the PIN of one of the seals.                *)
C11_SameIdentityAtomic ==
    /\ \A t \in Threads :
         (th[t].pc = "done" /\ th[t].op = "unseal" /\ th[t].had)
           => /\ th[t].ret = HSM_SUCCESS
              /\ th[t].got \in SealsBegun(th[t].id)
    /\ \A i \in Keys :
         (Quiet /\ Sealed(i)) => StoredPin(i) \in SealsBegun(i)

(* the identity of thread t's call is one that no other thread has used *)
Own(t) == \A x \in started[th[t].id] : x[1] = t

(* C12: when each thread works on an identity of its own, every seal       *)
(* returns success and leaves its PIN stored, every unseal of a sealed     *)
(* identity hands over the PIN its thread sealed, and no step of a call    *)
(* changes the artifact of an identity other than the call's own.          *)
C12_DistinctIdentities ==
    /\ [](\A t \in Threads :
            (th[t].pc = "done" /\ Own(t))
              => /\ th[t].op = "seal"
                      => /\ th[t].ret = HSM_SUCCESS
                         /\ StoredPin(th[t].id) = th[t].pin
                 /\ (th[t].op = "unseal" /\ th[t].had)
                      => /\ th[t].ret = HSM_SUCCESS
                         /\ th[t].got = ThreadPin(t))
    /\ [][\A i \in Keys :
            (files[i]' # files[i] \/ blobs[i]' # blobs[i]
             \/ items[i]' # items[i] \/ seKeys[i]' # seKeys[i])
              => \E t \in Threads : th[t].id = i /\ th'[t] # th[t]]_vars

(* C13: a detection call that starts after some call has returned kind K   *)
(* returns K, whatever the hardware does meanwhile and however the calls   *)
(* of several threads interleave.                                          *)
C13_DetectionStable ==
    \A t \in Threads :
      det[t].pc = "done" => \A K \in det[t].after : det[t].ret = K

(* C14: hsm_unseal_pin leaves the sealed artifacts, the credential-store   *)
(* items and the keys, the existence of each identity's Secure Enclave key *)
(* included, as they were, whatever it returns.                            *)
C14_UnsealChangesNothing ==
    [][last'.op = "unseal" => UNCHANGED <<files, blobs, items, seKeys>>]_vars

C19_SettersNeedTheirBackend ==
    [][/\ last'.op = "set_pcr_binding"
          => IF last'.active = HSM_METHOD_TPM
             THEN last'.ret = HSM_SUCCESS
             ELSE /\ last'.ret = HSM_ERR_NOT_AVAILABLE
                  /\ UNCHANGED g_pcr_mask
       /\ last'.op = "set_biometric"
          => IF last'.active = HSM_METHOD_SECURE_ENCLAVE
             THEN last'.ret = HSM_SUCCESS
             ELSE /\ last'.ret = HSM_ERR_NOT_AVAILABLE
                  /\ UNCHANGED g_require_biometric
       /\ g_pcr_mask' # g_pcr_mask
          => last'.op = "set_pcr_binding" /\ last'.active = HSM_METHOD_TPM
       /\ g_require_biometric' # g_require_biometric
          => /\ last'.op = "set_biometric"
             /\ last'.active = HSM_METHOD_SECURE_ENCLAVE]_vars

(* C16: hsm_clear_pin of a valid identity that has no artifact returns     *)
(* not_found and changes nothing; it returns io only when an artifact was  *)
(* there and could not be removed, and success only when an artifact was   *)
(* there and has been removed.                                             *)
C16_ClearOfNothing ==
    [][\A i \in Keys :
         (last'.op = "clear" /\ last'.id = i /\ ValidName(i))
           => /\ hsm_pin_exists(i) = 0
                   => /\ last'.ret = HSM_ERR_NOT_FOUND
                      /\ UNCHANGED Persistent
              /\ last'.ret = HSM_ERR_IO
                   => hsm_pin_exists(i) = 1 /\ hsm_pin_exists(i)' = 1
              /\ last'.ret = HSM_SUCCESS
                   => hsm_pin_exists(i) = 1 /\ hsm_pin_exists(i)' = 0]_vars

(* the PCRs that mask selects, with the values they hold now *)
SelectedNow(mask) == {q \in Pcrs \X (0..MaxPcrValue + 1) :
                        q[1] \in mask /\ pcr[q[1]] = q[2]}

(* C17: an artifact sealed by the TPM while the selected PCRs held v is    *)
(* unsealed exactly while they hold v: when a selected PCR has changed,    *)
(* hsm_unseal_pin returns pcr_mismatch, runs no consumer and leaves the    *)
(* artifact where it is; with the PCRs and the selection as they were at   *)
(* the seal it hands the PIN over and returns success.  Calls to the TPM   *)
(* and to the file system go as they do when nothing fails.                *)
C17_PcrBinding ==
    [][\A i \in Keys :
         (/\ last'.op = "unseal" /\ last'.id = i /\ ValidName(i)
          /\ ~last'.nullCb /\ last'.envOk
          /\ pcr' = pcr
          /\ blobs[i].st = "blob")
           => IF blobs[i].policy = SelectedNow(g_pcr_mask)
              THEN /\ last'.cbCalls = 1
                   /\ last'.got = blobs[i].data
                   /\ last'.cbRet = 0 => last'.ret = HSM_SUCCESS
              ELSE /\ last'.ret = HSM_ERR_PCR_MISMATCH
                   /\ last'.cbCalls = 0
                   /\ blobs'[i] = blobs[i]]_vars

(* an unseal has returned pcr_mismatch for an artifact sealed to PCR 7     *)
(* before PCR 7 was extended                                               *)
C17_Witness ==
    /\ last.op = "unseal"
    /\ last.ret = HSM_ERR_PCR_MISMATCH
    /\ last.envOk
    /\ last.id \in Keys
    /\ blobs[last.id].st = "blob"
    /\ blobs[last.id].policy = {<<7, 0>>}
    /\ g_pcr_mask = DEFAULT_PCR_MASK
    /\ pcr[7] = 1

(* C18: with a Secure Enclave, when the user dismisses the authentication  *)
(* prompt of hsm_unseal_pin, the call returns cancelled and runs no        *)
(* consumer, the item and the key of the identity are what they were,      *)
(* hsm_pin_exists is still 1, and the unseal that follows, when nothing    *)
(* fails in it, hands over the PIN the item holds.                         *)
C18_CancelKeepsEverything ==
    [][\A i \in Keys :
         /\ (last'.op = "unseal" /\ last'.id = i /\ last'.dismissed)
              => /\ last'.ret = HSM_ERR_CANCELLED
                 /\ last'.cbCalls = 0
                 /\ items'[i] = items[i]
                 /\ seKeys'[i] = seKeys[i]
                 /\ hsm_pin_exists(i)' = 1
         /\ (/\ last.op = "unseal" /\ last.id = i /\ last.dismissed
             /\ last'.op = "unseal" /\ last'.id = i /\ ~last'.nullCb
             /\ last'.envOk /\ IsEcies(items[i]) /\ keyMatch[i])
              => /\ last'.cbCalls = 1
                 /\ last'.got = EciesPlain(items[i])]_vars

(* the implementation has been initialized: the file-backed fallback has   *)
(* nothing to initialize                                                   *)
Initialized == backend = "stub" \/ g_initialized

(* C20: an hsm_initialize that returns success leaves the implementation   *)
(* initialized, nothing makes it uninitialized again, and hsm_initialize   *)
(* of an initialized implementation returns success and changes nothing:   *)
(* not the ESAPI context, not the storage directory, nor anything else.    *)
C20_InitializeIdempotent ==
    /\ [][(last'.op = "initialize" /\ last'.ret = HSM_SUCCESS)
            => Initialized']_vars
    /\ [][Initialized => Initialized']_vars
    /\ [][(last'.op = "initialize" /\ Initialized)
            => /\ last'.ret = HSM_SUCCESS
               /\ UNCHANGED <<g_initialized, g_esys_ctx, g_pcr_mask,
                              g_require_biometric, Persistent>>]_vars

(* hsm_initialize has returned success with the TPM implementation after  *)
(* a seal, which calls hsm_initialize itself, had stored a PIN             *)
C20_Witness ==
    /\ backend = "linux"
    /\ last.op = "initialize"
    /\ last.ret = HSM_SUCCESS
    /\ \E i \in Keys : blobs[i].st = "blob"

(* C21: a detection call that ran the probes returns tpm if its TPM probe  *)
(* succeeded, otherwise secure_element if its Secure Enclave probe         *)
(* succeeded, otherwise credential_store if a credential store is present, *)
(* otherwise none; never a less preferred kind than a probe that           *)
(* succeeded.                                                              *)
C21_PreferenceOrder ==
    \A t \in Threads :
      (det[t].pc = "done" /\ det[t].ran)
        => det[t].ret = Preferred(det[t].tpm, det[t].se, det[t].store)

Range(f) == {f[k] : k \in DOMAIN f}

(* C22: after hsm_clear_all returns success, hsm_pin_exists is 0 for every *)
(* identity, those that had a sealed artifact included, and                *)
(* hsm_list_identities reports no identity.                                *)
C22_ClearAllLeavesNothing ==
    [][(last'.op = "clear_all" /\ last'.ret = HSM_SUCCESS)
         => /\ \A i \in Keys : hsm_pin_exists(i)' = 0
            /\ hsm_list_identities'.count = 0]_vars

(* C24: hsm_list_identities, when nothing outside fails, returns exactly   *)
(* the identities for which hsm_pin_exists is 1, each once, none empty,    *)
(* and sets *count to the number of entries, names of 64 bytes included.   *)
C24_ListIsExact ==
    (last.op = "list" /\ last.envOk /\ last.had)
      => /\ last.count = Len(last.names)
         /\ Range(last.names) = {i \in Keys : hsm_pin_exists(i) = 1}
         /\ Cardinality(Range(last.names)) = Len(last.names)
         /\ <<>> \notin Range(last.names)

(* C23: hsm_clear_all reports a removal that failed: it returns an error   *)
(* when something outside failed, and success only when no file, blob or   *)
(* item of the service remains.                                            *)
C23_ClearAllReportsFailure ==
    [][last'.op = "clear_all"
         => /\ ~last'.envOk => last'.ret # HSM_SUCCESS
            /\ last'.ret = HSM_SUCCESS
                 => \A i \in Keys : /\ files'[i] = Absent
                                    /\ blobs'[i].st = "absent"
                                    /\ items'[i] = Absent]_vars

ErrorCodes ==
    {HSM_SUCCESS, HSM_ERR_NOT_AVAILABLE, HSM_ERR_NOT_INITIALIZED,
     HSM_ERR_INVALID_IDENTITY, HSM_ERR_SEAL_FAILED, HSM_ERR_UNSEAL_FAILED,
     HSM_ERR_NOT_FOUND, HSM_ERR_AUTH_FAILED, HSM_ERR_PCR_MISMATCH,
     HSM_ERR_MEMORY, HSM_ERR_IO, HSM_ERR_PERMISSION, HSM_ERR_TIMEOUT,
     HSM_ERR_CANCELLED, HSM_ERR_INTERNAL}

(* C25: hsm_error_message returns a string, never NULL, for every value of *)
(* its argument: a message of its own for each defined code and a fallback *)
(* for every other value, between the defined codes and beyond them.       *)
C25_MessageNeverNull ==
    last.op = "error_message"
      => /\ ~last.msg.null
         /\ last.ret \in ErrorCodes => last.msg.text # "Unknown error"

Reverse(seq) == [k \in 1..Len(seq) |-> seq[Len(seq) + 1 - k]]

(* the objects a guard holds, in the order they were recorded *)
Recorded(guard) == [k \in 1..guard.count |-> guard.refs[k - 1]]

(* C26: cf_guard_release releases every object cf_guard_add recorded, once *)
(* each and the last recorded first, and leaves the guard empty, so that   *)
(* no object is ever released again; hsm_guard_release flushes the handle  *)
(* of its guard once and later calls flush nothing.                        *)
C26_GuardReleasesOnce ==
    /\ [](\A r \in Refs : cf_refs[r] # "again")
    /\ [](\A h \in Handles : tpm_handles[h] # "again")
    /\ [][cf_last' # cf_last \/ cf_refs' # cf_refs \/ cf_guard'.count = 0
           => \/ cf_guard'.count > cf_guard.count
              \/ /\ cf_last' = Reverse(Recorded(cf_guard))
                 /\ cf_guard'.count = 0
                 /\ \A k \in DOMAIN cf_guard'.refs : cf_guard'.refs[k] = 0
                 /\ \A r \in Refs :
                      Times(Recorded(cf_guard), r) > 0
                        => cf_refs[r] = "held" /\ cf_refs'[r] = "released"
              \/ UNCHANGED <<cf_guard, cf_last>>]_vars
    /\ [][hsm_last' # hsm_last \/ hsm_guard' # hsm_guard
           => \/ /\ hsm_guard.handle = ESYS_TR_NONE
                 /\ hsm_guard'.handle # ESYS_TR_NONE
              \/ /\ hsm_guard'.handle = ESYS_TR_NONE
                 /\ hsm_last' = IF hsm_guard.handle = ESYS_TR_NONE THEN <<>>
                                ELSE <<hsm_guard.handle>>
                 /\ \A h \in Handles :
                      hsm_guard.handle = h
                        => tpm_handles'[h] = "released"]_vars

(* a release of a guard that another release had emptied released nothing, *)
(* after a release of a full guard                                         *)
C26_Witness ==
    /\ backend = "darwin"
    /\ cf_last = <<>>
    /\ cf_guard.count = 0
    /\ Cardinality({r \in Refs : cf_refs[r] = "released"})
         >= CF_GUARD_MAX_REFS

(* where in a sequence of events the event e is *)
Where(ev, e) == {k \in DOMAIN ev : ev[k] = e}

(* C27: when hsm_seal_pin or hsm_unseal_pin of the TPM implementation      *)
(* returns, on any path, every handle it obtained has been flushed once,   *)
(* after it was obtained, and no handle it did not obtain was flushed.     *)
C27_HandlesFlushedOnce ==
    (backend = "linux" /\ last.op \in {"seal", "unseal"})
      => \A h \in Handles :
           LET got == Where(last.events, <<"obtain", h>>)
               gone == Where(last.events, <<"flush", h>>)
           IN /\ Cardinality(got) <= 1
              /\ Cardinality(gone) = Cardinality(got)
              /\ \A g \in got, f \in gone : g < f

(* an unseal that returned an error after it had obtained the three        *)
(* handles                                                                 *)
C27_Witness ==
    /\ backend = "linux"
    /\ last.op = "unseal"
    /\ last.ret # HSM_SUCCESS
    /\ last.cbCalls = 0
    /\ \A h \in Handles : Where(last.events, <<"obtain", h>>) # {}

(* C28: in hsm_unseal_pin of the TPM implementation, whatever the consumer *)
(* returns, every TPM handle has been flushed before the consumer runs,    *)
(* the unsealed buffer is zeroed after the consumer has run, and it is     *)
(* freed after it was zeroed.                                              *)
C28_UnsealOrder ==
    (backend = "linux" /\ last.op = "unseal" /\ last.cbCalls > 0)
      => LET ev == last.events
             cb == Where(ev, <<"callback", "unsealed">>)
             zero == Where(ev, <<"zero", "unsealed">>)
             free == Where(ev, <<"free", "unsealed">>)
         IN /\ Cardinality(cb) = 1
            /\ Cardinality(zero) = 1
            /\ Cardinality(free) = 1
            /\ \A h \in Handles :
                 /\ Where(ev, <<"obtain", h>>) # {}
                 /\ Where(ev, <<"flush", h>>) # {}
                 /\ \A k \in Where(ev, <<"obtain", h>>)
                              \cup Where(ev, <<"flush", h>>),
                        c \in cb : k < c
            /\ \A c \in cb, z \in zero, f \in free : c < z /\ z < f

(* the consumer ran and reported a failure *)
C28_Witness ==
    /\ backend = "linux"
    /\ last.op = "unseal"
    /\ last.cbCalls = 1
    /\ last.cbRet # 0
    /\ last.ret = HSM_ERR_INTERNAL

(* C29: a TPM call that fails with a return code of none of the classes    *)
(* hsm_map_tss_error knows makes hsm_unseal_pin return unseal_failed, in    *)
(* CreatePrimary, Load, StartAuthSession, PolicyPCR and Unseal alike, and   *)
(* makes hsm_seal_pin return seal_failed, in CreatePrimary,                 *)
(* StartAuthSession, PolicyPCR, PolicyGetDigest and Create alike.           *)
C29_UnclassifiedFailure ==
    (backend = "linux" /\ last.tss.rc = "other")
      => /\ last.op = "unseal" => last.ret = HSM_ERR_UNSEAL_FAILED
         /\ last.op = "seal" => last.ret = HSM_ERR_SEAL_FAILED

(* C30: every call of the credential-store backend, store, retrieve and    *)
(* delete, returns not_found when the keychain says the item is not there, *)
(* auth_failed when it says the authorization failed, and io for every     *)
(* other status but success; never success, seal_failed, unseal_failed or  *)
(* internal.                                                               *)
C30_KeychainStatusMapping ==
    (last.op \in {"store", "retrieve", "delete"} /\ last.kc # errSecSuccess)
      => last.ret = CASE last.kc = errSecItemNotFound
                           -> HSMStatus_ERR_KEY_NOT_FOUND
                      [] last.kc = errSecAuthFailed
                           -> HSMStatus_ERR_AUTH_FAILED
                      [] OTHER -> HSMStatus_ERR_IO

(* C31: on the secure-element / credential-store path, when hsm_seal_pin   *)
(* of a PIN returns success for an identity that had an entry, the one     *)
(* entry of the identity holds the data sealed from that PIN, whatever the *)
(* delete step and the add step did.                                       *)
C31_ReplaceHoldsNewData ==
    (backend = "darwin" /\ last.op = "seal" /\ last.ret = HSM_SUCCESS
     /\ last.prior)
      => \A i \in Keys :
           last.id = i
             => items[i] = IF seAvail THEN Ecies(last.pin) ELSE last.pin

(* C32: when hsm_unseal_pin of the Secure Enclave hands a plaintext to the *)
(* consumer while the user-presence setting is enabled, the user was asked *)
(* for biometry at that call, whether the key of the identity was made     *)
(* before or after the setting was enabled; while the setting is disabled  *)
(* the user is not asked.                                                  *)
C32_PresenceAtEachUse ==
    (backend = "darwin" /\ seAvail /\ last.op = "unseal"
     /\ last.cbCalls = 1)
      => (g_require_biometric <=> last.prompt)

(* C33: hsm_clear_pin of a file-backed artifact unlinks the file only      *)
(* after every byte of it was overwritten with zero: at the step that      *)
(* unlinks, the file holds zeros only.                                     *)
C33_ZeroedBeforeUnlink ==
    [][\A t \in Threads :
         (At(t, "clear", "remove") /\ th'[t].pc = "done"
          /\ files[th[t].id] # Absent)
           => files[th[t].id] = ZeroFill(files[th[t].id])]_vars

(* C34: the file a successful hsm_seal_pin of the TPM writes is the 16-bit *)
(* pub_size, the pub_size bytes of the public blob, the 16-bit priv_size   *)
(* and the priv_size bytes of the private blob, 2 + pub_size + 2 +         *)
(* priv_size bytes in all; and hsm_unseal_pin reads from it the public and *)
(* private blobs that Esys_Create returned.                                *)
C34_FileLayout ==
    /\ sf.op = "write"
         => /\ Len(sf.bytes) = 2 + sf.out_public.size
                                 + 2 + sf.out_private.size
            /\ sf.bytes = U16Bytes(sf.out_public.size)
                           \o sf.out_public.buffer
                           \o U16Bytes(sf.out_private.size)
                           \o sf.out_private.buffer
    /\ (sf.op = "read" /\ sf.out_public # NoTpm2b)
         => /\ sf.in_public = sf.out_public
            /\ sf.in_private = sf.out_private

(* C38: whatever the sealed file holds, hsm_unseal_pin of the TPM stores   *)
(* no more bytes into the public or the private structure than it has; a   *)
(* file whose size fields are greater than the structures, or which is     *)
(* shorter than the size fields say, gets HSM_ERR_IO and no TPM command.   *)
C38_ReadWithinStructures ==
    sf.op = "read"
      => /\ ~sf.overrun
         /\ sf.next = "tpm"
              => /\ sf.in_public.size + 2 <= SizeofPublic
                 /\ sf.in_private.size + 2 <= SizeofPrivate
                 /\ Len(sf.bytes) >= 8 + sf.in_public.size
                                       + sf.in_private.size

(* C35: a seal that returns an error leaves the persistent state of its    *)
(* identity as it was: hsm_pin_exists answers the same and no artifact was *)
(* created, truncated or removed.                                          *)
C35_FailedSealChangesNothing ==
    [][(last'.op = "seal" /\ last'.ret # HSM_SUCCESS)
         => /\ UNCHANGED <<files, blobs, items>>
            /\ \A i \in Keys : hsm_pin_exists(i)' = hsm_pin_exists(i)]_vars

(* C36: every byte string the consumer of an unseal of an identity is      *)
(* given is the PIN of a seal of that identity, also while another thread  *)
(* clears the identity, clears everything or seals it: never bytes made    *)
(* from a file that was overwritten with zeros, truncated or half written. *)
C36_ConsumerGetsSealedPin ==
    \A t \in Threads :
      (th[t].pc = "done" /\ th[t].op = "unseal"
       /\ th[t].ret = HSM_SUCCESS)
        => th[t].got \in SealsBegun(th[t].id)

(* C37: when several threads enter hsm_initialize at once, the ESAPI       *)
(* context is created at most once, so that no thread works on a context   *)
(* that is replaced, and g_initialized is 1 only when the context and the  *)
(* storage directory exist.                                                *)
C37_InitializeOnce ==
    /\ Cardinality({t \in Threads : th[t].made}) <= 1
    /\ g_initialized => (g_esys_ctx /\ dirExists)

(* C39: an artifact the TPM sealed under PCR mask M is unsealed only while *)
(* g_pcr_mask is M: with the PCRs of M holding what they held at the seal, *)
(* hsm_unseal_pin hands the PIN over and returns success when g_pcr_mask   *)
(* is M, and returns pcr_mismatch without running the consumer when        *)
(* hsm_tpm_set_pcr_binding has set any other mask; and                     *)
(* hsm_tpm_set_pcr_binding leaves every stored artifact as it is.  Calls   *)
(* to the TPM and to the file system go as they do when nothing fails.     *)
C39_MaskBinding ==
    [][\A i \in Keys :
         /\ (/\ last'.op = "unseal" /\ last'.id = i /\ ValidName(i)
             /\ ~last'.nullCb /\ last'.envOk
             /\ pcr' = pcr
             /\ blobs[i].st = "blob"
             /\ blobs[i].policy = PolicyDigest(blobs[i].mask))
              => IF g_pcr_mask = blobs[i].mask
                 THEN /\ last'.cbCalls = 1
                      /\ last'.got = blobs[i].data
                      /\ last'.cbRet = 0 => last'.ret = HSM_SUCCESS
                 ELSE /\ last'.ret = HSM_ERR_PCR_MISMATCH
                      /\ last'.cbCalls = 0
         /\ last'.op = "set_pcr_binding" => blobs' = blobs]_vars

====
